---- MODULE Spec2Model ----
(***************************************************************************)
(* Authentication and account lockout of the SpendSense application:       *)
(* the credential store (db.py), the session and account guards and the    *)
(* login / signup / change-password / logout handlers (auth_ui.py), as     *)
(* routed by main() (app.py).                                              *)
(*                                                                         *)
(* Time is the UTC wall clock in whole seconds.  An ISO-8601 timestamp is  *)
(* modelled by the instant it denotes; NULL / None by NoTime.  The clock   *)
(* advances by at least one second between two form submissions.           *)
(***************************************************************************)
EXTENDS Integers, Sequences, FiniteSets, TLC

VARIABLES
    now,      \* datetime.now(timezone.utc), in seconds
    boot,     \* the instant the sessions under observation were opened
    users,    \* the rows of table users, by username
    sess,     \* st.session_state of every browser session
    req,      \* per session: the submitted form, the handler's locals, its position
    nreq,     \* per session: number of forms submitted
    streak,   \* per session: history of consecutive unknown-username logins
    fails,    \* per username: history of failures registered since the last reset
    probe     \* the Account Guard called directly: its parameters and last answer

vars == <<now, boot, users, sess, req, nreq, streak, fails, probe>>

----------------------------------------------------------------------------
(* Policy constants                                                        *)

MAX_FAILED_ATTEMPTS == 5
LOCKOUT_MINUTES == 15
GLOBAL_MAX_FAILED_ATTEMPTS == 12
GLOBAL_LOCK_MINUTES == 15
PASSWORD_EXPIRY_DAYS == 90

SecondsPerMinute == 60
SecondsPerDay == 86400

----------------------------------------------------------------------------
(* Bounds of the model                                                     *)

MaxRequests == 3       \* forms the session submits in the sequential model
MaxSprayRequests == 14 \* forms the session submits in the login-only model
MaxElapsed == 915     \* seconds observed after boot
NSalts == 2            \* distinct values os.urandom may return
MaxConcRequests == 2   \* forms the two sessions submit between them in the concurrent model
MaxAttemptsParam == 3  \* largest max_attempts the Account Guard is called with
MaxMinutesParam == 2   \* largest lock_minutes the Account Guard is called with
MaxChangeRequests == 4 \* forms the session submits in the forced-change model
MaxFaultRequests == 3  \* forms the session submits in the failing-store model
MaxParseRequests == 4  \* logins the session submits in the unreadable-timestamp model
MaxGuardCalls == 6     \* calls of the Account Guard made directly
MaxExpiryDays == 2     \* largest PASSWORD_EXPIRY_DAYS the expiry check is evaluated with
MaxExpiryCalls == 5    \* evaluations of the expiry check made directly
MaxSeedCalls == 3      \* calls made on the table in the seeding model
MaxThresholdRequests == 3 \* forms the session submits in the threshold model
MaxLockoutRequests == 5 \* forms the session submits in the lockout model
MaxTyped == 2          \* characters typed after what the password field holds at first

----------------------------------------------------------------------------
(* Values                                                                  *)

NoTime == -1
BadTime == -2     \* a stored timestamp that parse_iso cannot read
NoName == "<None>"
NoRole == "<None>"

Upper == {"A","B","C","D","E","F","G","H","I","J","K","L","M",
          "N","O","P","Q","R","S","T","U","V","W","X","Y","Z"}
Lower == {"a","b","c","d","e","f","g","h","i","j","k","l","m",
          "n","o","p","q","r","s","t","u","v","w","x","y","z"}
Digit == {"0","1","2","3","4","5","6","7","8","9"}

Pw1234 == <<"1","2","3","4">>
PwAbcd == <<"a","b","c","d">>
PwPass == <<"p","a","s","s">>
PwGood == <<"A","b","c","d","e","f","1","!">>
PwGood2 == <<"Z","y","x","w","v","u","9","#">>
PwEmpty == <<>>

SeedData ==
    [mario |-> [password |-> Pw1234, role |-> "Admin"],
     lucas |-> [password |-> PwAbcd, role |-> "Manager"],
     irene |-> [password |-> PwPass, role |-> "Viewer"]]

SeedNames == DOMAIN SeedData
Usernames == SeedNames \cup {"alice"}

GhostNames == <<"ghost01","ghost02","ghost03","ghost04","ghost05","ghost06",
                "ghost07","ghost08","ghost09","ghost10","ghost11","ghost12",
                "ghost13">>

Sessions == {"s1", "s2"}

Salts == 1..NSalts

Max(a, b) == IF a >= b THEN a ELSE b

----------------------------------------------------------------------------
(* Password hasher                                                         *)

\* PBKDF2-HMAC-SHA256 as an ideal one-way function of (password, salt):
\* two digests are equal exactly when password and salt are.
pbkdf2_hmac(password, salt) == <<"pbkdf2", password, salt>>

_hash_password(password, salt) ==
    [salt_hex |-> salt, password_hash_hex |-> pbkdf2_hmac(password, salt)]

_verify_password(password, salt_hex, hash_hex) ==
    pbkdf2_hmac(password, salt_hex) = hash_hex

validate_password(password) ==
    /\ Len(password) >= 8
    /\ \E i \in 1..Len(password) : password[i] \in Upper
    /\ \E i \in 1..Len(password) : password[i] \notin (Upper \cup Lower \cup Digit)

----------------------------------------------------------------------------
(* Credential store                                                        *)

NoUser ==
    [exists |-> FALSE, username |-> NoName, role |-> NoRole, salt_hex |-> 0,
     password_hash_hex |-> <<>>, failed_attempts |-> 0, lock_until |-> NoTime,
     password_last_set |-> NoTime]

NewRow(username, password, role, salt, t) ==
    [exists |-> TRUE, username |-> username, role |-> role,
     salt_hex |-> _hash_password(password, salt).salt_hex,
     password_hash_hex |-> _hash_password(password, salt).password_hash_hex,
     failed_attempts |-> 0, lock_until |-> NoTime, password_last_set |-> t]

get_user(rows, username) ==
    IF username \in DOMAIN rows THEN rows[username] ELSE NoUser

\* An INSERT into a table without the UNIQUE constraint on username.
create_user_overwrites(rows, username, password, role, salt, t) ==
    [ok |-> TRUE, msg |-> "None",
     rows |-> [rows EXCEPT ![username] = NewRow(username, password, role, salt, t)]]

\* INSERT under the UNIQUE constraint on username: one atomic statement.
create_user(rows, username, password, role, salt, t) ==
    IF get_user(rows, username).exists
    THEN [ok |-> FALSE, msg |-> "DuplicateUsername", rows |-> rows]
    ELSE [ok |-> TRUE, msg |-> "None",
          rows |-> [rows EXCEPT ![username] = NewRow(username, password, role, salt, t)]]

authenticate(rows, username, password) ==
    LET u == get_user(rows, username) IN
    IF ~u.exists THEN FALSE
    ELSE _verify_password(password, u.salt_hex, u.password_hash_hex)

\* A counter that locks one failure late.
register_failed_attempt_read_late(rows, username, max_attempts, lock_minutes, t) ==
    LET u == get_user(rows, username)
        fa == u.failed_attempts + 1
    IN  [found |-> u.exists,
         fa |-> fa,
         lock_until |-> IF fa > max_attempts
                        THEN t + lock_minutes * SecondsPerMinute
                        ELSE u.lock_until]

\* register_failed_attempt, up to the UPDATE: the SELECT and the new values.
register_failed_attempt_read(rows, username, max_attempts, lock_minutes, t) ==
    LET u == get_user(rows, username)
        fa == u.failed_attempts + 1
    IN  [found |-> u.exists,
         fa |-> fa,
         lock_until |-> IF fa >= max_attempts
                        THEN t + lock_minutes * SecondsPerMinute
                        ELSE u.lock_until]

\* Mutant: the UPDATE writes lock_until and leaves failed_attempts as stored.
register_failed_attempt_write_lock_only(rows, username, fa, lock_until) ==
    IF get_user(rows, username).exists
    THEN [rows EXCEPT ![username].lock_until = lock_until]
    ELSE rows

\* register_failed_attempt, the UPDATE: its own transaction.
register_failed_attempt_write(rows, username, fa, lock_until) ==
    IF get_user(rows, username).exists
    THEN [rows EXCEPT ![username].failed_attempts = fa,
                      ![username].lock_until = lock_until]
    ELSE rows

\* Mutant: the reset takes one failure off and lifts the lock.
reset_failed_attempts_takes_one_off(rows, username) ==
    IF get_user(rows, username).exists
    THEN [rows EXCEPT ![username].failed_attempts = Max(0, @ - 1),
                      ![username].lock_until = NoTime]
    ELSE rows

reset_failed_attempts(rows, username) ==
    IF get_user(rows, username).exists
    THEN [rows EXCEPT ![username].failed_attempts = 0,
                      ![username].lock_until = NoTime]
    ELSE rows

\* Mutant: the UPDATE of the password also clears the row's guard state.
set_new_password_clears_guard(rows, username, new_password, salt, t) ==
    IF get_user(rows, username).exists
    THEN [rows EXCEPT ![username].salt_hex = _hash_password(new_password, salt).salt_hex,
                      ![username].password_hash_hex =
                          _hash_password(new_password, salt).password_hash_hex,
                      ![username].password_last_set = t,
                      ![username].failed_attempts = 0,
                      ![username].lock_until = NoTime]
    ELSE rows

\* Mutant: the UPDATE replaces the hash and leaves the stored salt as it was.
set_new_password_keeps_salt(rows, username, new_password, salt, t) ==
    IF get_user(rows, username).exists
    THEN [rows EXCEPT ![username].password_hash_hex =
                          _hash_password(new_password, salt).password_hash_hex,
                      ![username].password_last_set = t]
    ELSE rows

set_new_password(rows, username, new_password, salt, t) ==
    IF get_user(rows, username).exists
    THEN [rows EXCEPT ![username].salt_hex = _hash_password(new_password, salt).salt_hex,
                      ![username].password_hash_hex =
                          _hash_password(new_password, salt).password_hash_hex,
                      ![username].password_last_set = t]
    ELSE rows

----------------------------------------------------------------------------
(* Session guard                                                           *)

minutes_left(dt, t) == ((dt - t) \div SecondsPerMinute) + 1

\* A check that forgets the counter when the lock has run out.
is_global_locked_keeps_count(S, t) ==
    IF S.global_lock_until # NoTime
    THEN IF t < S.global_lock_until
         THEN [locked |-> TRUE, minutes |-> minutes_left(S.global_lock_until, t),
               S |-> S, raised |-> FALSE]
         ELSE [locked |-> FALSE, minutes |-> 0,
               S |-> [S EXCEPT !.global_lock_until = NoTime], raised |-> FALSE]
    ELSE [locked |-> FALSE, minutes |-> 0, S |-> S, raised |-> FALSE]

is_global_locked(S, t) ==
    IF S.global_lock_until # NoTime
    THEN IF S.global_lock_until = BadTime
         THEN [locked |-> FALSE, minutes |-> 0, S |-> S, raised |-> TRUE]
         ELSE IF t < S.global_lock_until
         THEN [locked |-> TRUE, minutes |-> minutes_left(S.global_lock_until, t),
               S |-> S, raised |-> FALSE]
         ELSE [locked |-> FALSE, minutes |-> 0,
               S |-> [S EXCEPT !.global_lock_until = NoTime,
                               !.global_failed_attempts = 0],
               raised |-> FALSE]
    ELSE [locked |-> FALSE, minutes |-> 0, S |-> S, raised |-> FALSE]

\* A guard that locks one failure late.
register_global_fail_late(S, t) ==
    LET n == S.global_failed_attempts + 1 IN
    [S EXCEPT !.global_failed_attempts = n,
              !.global_lock_until =
                  IF n > GLOBAL_MAX_FAILED_ATTEMPTS
                  THEN t + GLOBAL_LOCK_MINUTES * SecondsPerMinute
                  ELSE @]

register_global_fail(S, t) ==
    LET n == S.global_failed_attempts + 1 IN
    [S EXCEPT !.global_failed_attempts = n,
              !.global_lock_until =
                  IF n >= GLOBAL_MAX_FAILED_ATTEMPTS
                  THEN t + GLOBAL_LOCK_MINUTES * SecondsPerMinute
                  ELSE @]

reset_global_fail(S) ==
    [S EXCEPT !.global_failed_attempts = 0, !.global_lock_until = NoTime]

----------------------------------------------------------------------------
(* Account guard                                                           *)

\* A check that lets every login through.
is_locked_never(user_data, t) ==
    [locked |-> FALSE, minutes |-> 0, reset |-> FALSE]

\* A check that still answers locked at the instant the lock runs out.
is_locked_at_expiry(user_data, t) ==
    IF user_data.lock_until # NoTime
    THEN IF t <= user_data.lock_until
         THEN [locked |-> TRUE, minutes |-> minutes_left(user_data.lock_until, t),
               reset |-> FALSE]
         ELSE [locked |-> FALSE, minutes |-> 0, reset |-> TRUE]
    ELSE [locked |-> FALSE, minutes |-> 0, reset |-> FALSE]

\* reset: whether db.reset_failed_attempts is called for the expired lock.
\* The except clause answers (False, None) for a lock_until that does not parse.
is_locked(user_data, t) ==
    IF user_data.lock_until # NoTime
    THEN IF user_data.lock_until = BadTime
         THEN [locked |-> FALSE, minutes |-> 0, reset |-> FALSE]
         ELSE IF t < user_data.lock_until
         THEN [locked |-> TRUE, minutes |-> minutes_left(user_data.lock_until, t),
               reset |-> FALSE]
         ELSE [locked |-> FALSE, minutes |-> 0, reset |-> TRUE]
    ELSE [locked |-> FALSE, minutes |-> 0, reset |-> FALSE]

\* Mutant: a password is still good at the very instant its days run out.
is_password_expired_in_late(user_data, t, expiry_days) ==
    IF expiry_days <= 0 THEN FALSE
    ELSE IF user_data.password_last_set = NoTime THEN TRUE
    ELSE IF user_data.password_last_set = BadTime THEN TRUE
    ELSE t > user_data.password_last_set + expiry_days * SecondsPerDay

\* is_password_expired with the module's PASSWORD_EXPIRY_DAYS as expiry_days.
\* A password_last_set that does not parse ends in the except clause: expired.
is_password_expired_in(user_data, t, expiry_days) ==
    IF expiry_days <= 0 THEN FALSE
    ELSE IF user_data.password_last_set = NoTime THEN TRUE
    ELSE IF user_data.password_last_set = BadTime THEN TRUE
    ELSE t >= user_data.password_last_set + expiry_days * SecondsPerDay

is_password_expired(user_data, t) ==
    is_password_expired_in(user_data, t, PASSWORD_EXPIRY_DAYS)

----------------------------------------------------------------------------
(* Session state and the submitted form                                    *)

\* _ensure_session_keys and init_global_guard on a fresh session.
NewSession ==
    [logged_in |-> FALSE, username |-> NoName, role |-> NoRole,
     must_change_password |-> FALSE,
     global_failed_attempts |-> 0, global_lock_until |-> NoTime]

NoOutcome == [msg |-> "None", minutes |-> 0, remaining_user |-> 0, remaining_global |-> 0]

Out(msg, minutes, remaining_user, remaining_global) ==
    [msg |-> msg, minutes |-> minutes, remaining_user |-> remaining_user,
     remaining_global |-> remaining_global]

IdleReq ==
    [pc |-> "idle", op |-> "none", username |-> NoName, password |-> PwEmpty,
     confirm |-> PwEmpty, current |-> PwEmpty, role |-> NoRole, force |-> FALSE,
     salt |-> 0, user_data |-> NoUser, fa |-> 0, lock_until |-> NoTime,
     fault |-> FALSE, outcome |-> NoOutcome]

\* A world W is what one handler step reads and writes: the table (users), the
\* session (S), the handler's form and locals (R) and the history (fails).

\* The handler returns: its locals are gone, its message is the outcome; the
\* fields of the form stay as typed (clear_on_submit=False).
Finish(W, outcome) ==
    [W EXCEPT !.R = [IdleReq EXCEPT !.op = W.R.op, !.username = W.R.username,
                                    !.password = W.R.password, !.confirm = W.R.confirm,
                                    !.current = W.R.current, !.role = W.R.role,
                                    !.force = W.R.force, !.fault = W.R.fault,
                                    !.outcome = outcome]]

Goto(W, pc) == [W EXCEPT !.R.pc = pc]

\* An exception leaves the handler: the script run ends there, the session
\* keys written so far stay.
Raise(W) == Finish(W, Out("Exception", 0, 0, 0))

----------------------------------------------------------------------------
(* show_login, one step per access to the store                            *)

\* is_global_locked, then db.get_user.
login_get_user(W, t) ==
    LET g == is_global_locked(W.S, t)
        user_data == get_user(W.users, W.R.username)
    IN  IF g.raised
        THEN Raise(W)
        ELSE IF g.locked
        THEN Finish([W EXCEPT !.S = g.S], Out("GlobalLockActive", g.minutes, 0, 0))
        ELSE IF ~user_data.exists
        THEN Finish([W EXCEPT !.S = register_global_fail(g.S, t)],
                    Out("InvalidCredentials", 0, 0, 0))
        ELSE Goto([W EXCEPT !.S = g.S, !.R.user_data = user_data], "login_is_locked")

\* Mutant: a login during the lockout counts on the row and renews the lock.
login_is_locked_renews(W, t) ==
    LET l == is_locked(W.R.user_data, t)
        u == W.R.user_data.username
        W1 == IF l.reset /\ ~W.R.fault
              THEN [W EXCEPT !.users = reset_failed_attempts(W.users, u),
                             !.fails[u] = 0]
              ELSE W
    IN  IF l.locked
        THEN Finish([W1 EXCEPT !.S = register_global_fail(W.S, t),
                               !.users[u].failed_attempts = @ + 1,
                               !.users[u].lock_until =
                                   t + LOCKOUT_MINUTES * SecondsPerMinute],
                    Out("AccountLocked", l.minutes, 0, 0))
        ELSE Goto(W1, "login_authenticate")

\* A handler that reports the lock and goes on to the password all the same.
login_is_locked_goes_on(W, t) ==
    LET l == is_locked(W.R.user_data, t)
        u == W.R.user_data.username
        W1 == IF l.reset
              THEN [W EXCEPT !.users = reset_failed_attempts(W.users, u),
                             !.fails[u] = 0]
              ELSE W
    IN  Goto(W1, "login_authenticate")

\* is_locked(user_data), with its lazy db.reset_failed_attempts.
login_is_locked(W, t) ==
    LET l == is_locked(W.R.user_data, t)
        u == W.R.user_data.username
        W1 == IF l.reset /\ ~W.R.fault
              THEN [W EXCEPT !.users = reset_failed_attempts(W.users, u),
                             !.fails[u] = 0]
              ELSE W
    IN  IF l.locked
        THEN Finish([W1 EXCEPT !.S = register_global_fail(W.S, t)],
                    Out("AccountLocked", l.minutes, 0, 0))
        ELSE Goto(W1, "login_authenticate")

\* db.authenticate(username, password).
login_authenticate(W, t) ==
    IF authenticate(W.users, W.R.username, W.R.password)
    THEN Goto(W, "login_reset")
    ELSE Goto(W, "login_fail_read")

\* db.register_failed_attempt: the SELECT.
login_fail_read(W, t) ==
    LET r == register_failed_attempt_read(W.users, W.R.username,
                                          MAX_FAILED_ATTEMPTS, LOCKOUT_MINUTES, t)
    IN  Goto([W EXCEPT !.R.fa = IF r.found THEN r.fa ELSE -1,
                       !.R.lock_until = r.lock_until],
             "login_fail_write")

\* A handler that counts the failure against the row only.
login_fail_write_row_only(W, t) ==
    LET u == W.R.username
        W1 == IF W.R.fa >= 0
              THEN [W EXCEPT !.users = register_failed_attempt_write(W.users, u,
                                           W.R.fa, W.R.lock_until),
                             !.fails[u] = @ + 1]
              ELSE W
        after_user == W.R.user_data.failed_attempts + 1
    IN  Finish(W1, Out("WrongCredentials", 0, Max(0, MAX_FAILED_ATTEMPTS - after_user),
                       Max(0, GLOBAL_MAX_FAILED_ATTEMPTS - W.S.global_failed_attempts)))

\* db.register_failed_attempt: the UPDATE; then register_global_fail and the message.
login_fail_write(W, t) ==
    LET u == W.R.username
        W1 == IF W.R.fa >= 0
              THEN [W EXCEPT !.users = register_failed_attempt_write(W.users, u,
                                           W.R.fa, W.R.lock_until),
                             !.fails[u] = @ + 1]
              ELSE W
        S == register_global_fail(W.S, t)
        after_user == W.R.user_data.failed_attempts + 1
        remaining_user == Max(0, MAX_FAILED_ATTEMPTS - after_user)
        remaining_global == Max(0, GLOBAL_MAX_FAILED_ATTEMPTS - S.global_failed_attempts)
    IN  IF W.R.fa >= 0 /\ W.R.fault
        THEN Raise(W)
        ELSE IF remaining_global = 0
        THEN Finish([W1 EXCEPT !.S = S], Out("GlobalMaxReached", GLOBAL_LOCK_MINUTES, 0, 0))
        ELSE Finish([W1 EXCEPT !.S = S],
                    Out("WrongCredentials", 0, remaining_user, remaining_global))

\* A handler that leaves the row's counters as they are.
login_reset_forgets(W, t) ==
    Goto(W, "login_finish")

\* db.reset_failed_attempts(username) after a good password.
login_reset(W, t) ==
    IF W.R.fault
    THEN Raise(W)
    ELSE Goto([W EXCEPT !.users = reset_failed_attempts(W.users, W.R.username),
                        !.fails[W.R.username] = 0],
              "login_finish")

\* A handler without the expiry check.
login_finish_ignores_expiry(W, t) ==
    Finish([W EXCEPT !.S = [reset_global_fail(W.S) EXCEPT !.logged_in = TRUE,
                                                          !.username = W.R.username,
                                                          !.role = W.R.user_data.role]],
           Out("Welcome", 0, 0, 0))

\* reset_global_fail, the expiry check and the session keys.
login_finish(W, t) ==
    LET S == reset_global_fail(W.S) IN
    IF is_password_expired(W.R.user_data, t)
    THEN Finish([W EXCEPT !.S = [S EXCEPT !.must_change_password = TRUE,
                                          !.username = W.R.username]],
                Out("PasswordExpired", 0, 0, 0))
    ELSE Finish([W EXCEPT !.S = [S EXCEPT !.logged_in = TRUE,
                                          !.username = W.R.username,
                                          !.role = W.R.user_data.role]],
                Out("Welcome", 0, 0, 0))

----------------------------------------------------------------------------
(* show_signup: one access to the store                                    *)

\* A handler that logs the new user in.
signup_create_logs_in(W, t) ==
    LET g == is_global_locked(W.S, t)
        failed == [W EXCEPT !.S = register_global_fail(g.S, t)]
        c == create_user(W.users, W.R.username, W.R.password, W.R.role, W.R.salt, t)
    IN  IF g.locked
        THEN Finish([W EXCEPT !.S = g.S], Out("GlobalLockActive", g.minutes, 0, 0))
        ELSE IF W.R.username = ""
        THEN Finish(failed, Out("EmptyUsername", 0, 0, 0))
        ELSE IF ~validate_password(W.R.password)
        THEN Finish(failed, Out("PasswordPolicyViolation", 0, 0, 0))
        ELSE IF W.R.password # W.R.confirm
        THEN Finish(failed, Out("PasswordMismatch", 0, 0, 0))
        ELSE IF c.ok
        THEN Finish([W EXCEPT !.users = c.rows,
                              !.S = [reset_global_fail(g.S) EXCEPT
                                        !.logged_in = TRUE, !.username = W.R.username,
                                        !.role = W.R.role]],
                    Out("SignupOk", 0, 0, 0))
        ELSE Finish(failed, Out(c.msg, 0, 0, 0))

\* A handler that counts no global failure for a form that fails validation.
signup_create_uncounted(W, t) ==
    LET g == is_global_locked(W.S, t)
        failed == [W EXCEPT !.S = g.S]
        c == create_user(W.users, W.R.username, W.R.password, W.R.role, W.R.salt, t)
    IN  IF g.locked
        THEN Finish([W EXCEPT !.S = g.S], Out("GlobalLockActive", g.minutes, 0, 0))
        ELSE IF W.R.username = ""
        THEN Finish(failed, Out("EmptyUsername", 0, 0, 0))
        ELSE IF ~validate_password(W.R.password)
        THEN Finish(failed, Out("PasswordPolicyViolation", 0, 0, 0))
        ELSE IF W.R.password # W.R.confirm
        THEN Finish(failed, Out("PasswordMismatch", 0, 0, 0))
        ELSE IF c.ok
        THEN Finish([W EXCEPT !.users = c.rows, !.S = reset_global_fail(g.S)],
                    Out("SignupOk", 0, 0, 0))
        ELSE Finish([W EXCEPT !.S = register_global_fail(g.S, t)], Out(c.msg, 0, 0, 0))

\* Mutant: a signup made during the global lock counts as one more failure.
signup_create_counts_when_locked(W, t) ==
    LET g == is_global_locked(W.S, t)
        failed == [W EXCEPT !.S = register_global_fail(g.S, t)]
        c == IF W.R.fault
             THEN [ok |-> FALSE, msg |-> "StorageError", rows |-> W.users]
             ELSE create_user(W.users, W.R.username, W.R.password, W.R.role, W.R.salt, t)
    IN  IF g.raised
        THEN Raise(W)
        ELSE IF g.locked
        THEN Finish(failed, Out("GlobalLockActive", g.minutes, 0, 0))
        ELSE IF W.R.username = ""
        THEN Finish(failed, Out("EmptyUsername", 0, 0, 0))
        ELSE IF ~validate_password(W.R.password)
        THEN Finish(failed, Out("PasswordPolicyViolation", 0, 0, 0))
        ELSE IF W.R.password # W.R.confirm
        THEN Finish(failed, Out("PasswordMismatch", 0, 0, 0))
        ELSE IF c.ok
        THEN Finish([W EXCEPT !.users = c.rows, !.S = reset_global_fail(g.S)],
                    Out("SignupOk", 0, 0, 0))
        ELSE Finish(failed, Out(c.msg, 0, 0, 0))

\* create_user answers (False, "Error al crear usuario: ...") when the INSERT fails.
signup_create(W, t) ==
    LET g == is_global_locked(W.S, t)
        failed == [W EXCEPT !.S = register_global_fail(g.S, t)]
        c == IF W.R.fault
             THEN [ok |-> FALSE, msg |-> "StorageError", rows |-> W.users]
             ELSE create_user(W.users, W.R.username, W.R.password, W.R.role, W.R.salt, t)
    IN  IF g.raised
        THEN Raise(W)
        ELSE IF g.locked
        THEN Finish([W EXCEPT !.S = g.S], Out("GlobalLockActive", g.minutes, 0, 0))
        ELSE IF W.R.username = ""
        THEN Finish(failed, Out("EmptyUsername", 0, 0, 0))
        ELSE IF ~validate_password(W.R.password)
        THEN Finish(failed, Out("PasswordPolicyViolation", 0, 0, 0))
        ELSE IF W.R.password # W.R.confirm
        THEN Finish(failed, Out("PasswordMismatch", 0, 0, 0))
        ELSE IF c.ok
        THEN Finish([W EXCEPT !.users = c.rows, !.S = reset_global_fail(g.S)],
                    Out("SignupOk", 0, 0, 0))
        ELSE Finish(failed, Out(c.msg, 0, 0, 0))

----------------------------------------------------------------------------
(* show_change_password(username, force)                                   *)

\* A handler that takes the current password on trust.
chpw_check_trusting(W, t) ==
    LET g == is_global_locked(W.S, t)
        failed == [W EXCEPT !.S = register_global_fail(g.S, t)]
    IN  IF g.locked
        THEN Finish([W EXCEPT !.S = g.S], Out("GlobalLockActive", g.minutes, 0, 0))
        ELSE IF W.R.password # W.R.confirm
        THEN Finish(failed, Out("PasswordMismatch", 0, 0, 0))
        ELSE IF ~validate_password(W.R.password)
        THEN Finish(failed, Out("PasswordPolicyViolation", 0, 0, 0))
        ELSE Goto([W EXCEPT !.S = g.S], "chpw_set")

\* is_global_locked, db.authenticate of the current password, the form checks.
chpw_check(W, t) ==
    LET g == is_global_locked(W.S, t)
        failed == [W EXCEPT !.S = register_global_fail(g.S, t)]
    IN  IF g.raised
        THEN Raise(W)
        ELSE IF g.locked
        THEN Finish([W EXCEPT !.S = g.S], Out("GlobalLockActive", g.minutes, 0, 0))
        ELSE IF ~W.R.force /\ ~authenticate(W.users, W.R.username, W.R.current)
        THEN Finish(failed, Out("CurrentPasswordWrong", 0, 0, 0))
        ELSE IF W.R.password # W.R.confirm
        THEN Finish(failed, Out("PasswordMismatch", 0, 0, 0))
        ELSE IF ~validate_password(W.R.password)
        THEN Finish(failed, Out("PasswordPolicyViolation", 0, 0, 0))
        ELSE Goto([W EXCEPT !.S = g.S], "chpw_set")

\* A handler that stores the new password without letting the session in.
chpw_set_stays_out(W, t) ==
    Goto([W EXCEPT !.users = set_new_password(W.users, W.R.username, W.R.password,
                                              W.R.salt, t),
                   !.S = reset_global_fail(W.S)],
         "chpw_role")

\* db.set_new_password, reset_global_fail, the session flags.
chpw_set(W, t) ==
    IF W.R.fault
    THEN Raise(W)
    ELSE Goto([W EXCEPT !.users = set_new_password(W.users, W.R.username, W.R.password,
                                                   W.R.salt, t),
                        !.S = [reset_global_fail(W.S) EXCEPT !.must_change_password = FALSE,
                                                             !.logged_in = TRUE]],
              "chpw_role")

\* fresh = db.get_user(username); the role of the session.
chpw_role(W, t) ==
    LET fresh == get_user(W.users, W.R.username) IN
    Finish([W EXCEPT !.S.role = IF fresh.exists THEN fresh.role ELSE "Viewer"],
           Out("PasswordUpdated", 0, 0, 0))

----------------------------------------------------------------------------
(* logout                                                                  *)

\* A logout that leaves the session's guard as it is.
logout_keeps_guard(W, t) ==
    Finish([W EXCEPT !.S = [W.S EXCEPT !.logged_in = FALSE, !.username = NoName,
                                       !.role = NoRole, !.must_change_password = FALSE]],
           NoOutcome)

logout(W, t) ==
    Finish([W EXCEPT !.S = reset_global_fail(
                        [W.S EXCEPT !.logged_in = FALSE, !.username = NoName,
                                    !.role = NoRole, !.must_change_password = FALSE])],
           NoOutcome)

----------------------------------------------------------------------------
(* One step of the handler a session is running, and a handler run to its  *)
(* return.                                                                 *)

Step(W, t) ==
    CASE W.R.pc = "login_get_user"     -> login_get_user(W, t)
      [] W.R.pc = "login_is_locked"    -> login_is_locked(W, t)
      [] W.R.pc = "login_authenticate" -> login_authenticate(W, t)
      [] W.R.pc = "login_fail_read"    -> login_fail_read(W, t)
      [] W.R.pc = "login_fail_write"   -> login_fail_write(W, t)
      [] W.R.pc = "login_reset"        -> login_reset(W, t)
      [] W.R.pc = "login_finish"       -> login_finish(W, t)
      [] W.R.pc = "signup_create"      -> signup_create(W, t)
      [] W.R.pc = "chpw_check"         -> chpw_check(W, t)
      [] W.R.pc = "chpw_set"           -> chpw_set(W, t)
      [] W.R.pc = "chpw_role"          -> chpw_role(W, t)
      [] W.R.pc = "logout"             -> logout(W, t)
      [] OTHER                         -> W

RECURSIVE Run(_, _)
Run(W, t) == IF W.R.pc = "idle" THEN W ELSE Run(Step(W, t), t)

----------------------------------------------------------------------------
(* Bootstrap: main() runs db.seed_initial_users on every start              *)

\* Mutant: INSERT OR REPLACE, every seed row is written anew.
seed_initial_users_replaces(rows, seed, salt, t) ==
    [u \in DOMAIN rows |->
        IF u \in DOMAIN seed
        THEN NewRow(u, seed[u].password, seed[u].role, salt, t)
        ELSE rows[u]]

seed_initial_users(rows, seed, salt, t) ==
    [u \in DOMAIN rows |->
        IF u \in DOMAIN seed /\ ~rows[u].exists
        THEN NewRow(u, seed[u].password, seed[u].role, salt, t)
        ELSE rows[u]]

EmptyTable == [u \in Usernames |-> NoUser]

\* The table was seeded at instant 0; the sessions open right then, or one
\* second before the seeded passwords reach PASSWORD_EXPIRY_DAYS.
StartTimes == {0, PASSWORD_EXPIRY_DAYS * SecondsPerDay - 1}

\* Seconds between two submissions: the next second, or one second short of
\* a lockout window.
Delays == {1, LOCKOUT_MINUTES * SecondsPerMinute - 1}


\* No submission has been made yet (see the history of a session below).
NoStreak == [ghosts |-> 0, wrong |-> 0]

\* No direct call of the Account Guard has been made.
NoProbe ==
    [max_attempts |-> MAX_FAILED_ATTEMPTS, lock_minutes |-> LOCKOUT_MINUTES,
     calls |-> 0, total |-> 0, last |-> "none", prev |-> "none", at |-> NoTime,
     locked |-> FALSE, minutes |-> 0, reset |-> FALSE]

Init ==
    /\ now \in StartTimes
    /\ boot = now
    /\ users = seed_initial_users(EmptyTable, SeedData, 1, 0)
    /\ sess = [s \in Sessions |-> NewSession]
    /\ req = [s \in Sessions |-> IdleReq]
    /\ nreq = [s \in Sessions |-> 0]
    /\ streak = [s \in Sessions |-> NoStreak]
    /\ fails = [u \in Usernames |-> 0]
    /\ probe = NoProbe

----------------------------------------------------------------------------------------------------------------------------------------
(* History of a session.                                                    *)
(* streak[s].ghosts = n >= 0 when, since the session was Anonymous with     *)
(* Session Guard (0, None), it made exactly n submissions, each a login     *)
(* naming another unknown username (GhostNames[1..n]); 13 when a 13th login *)
(* followed 12 of them before the global lock ran out; 14 when the login    *)
(* after that 13th came once the global lock had run out; -1 otherwise.     *)
(* streak[s].wrong = m >= 0 when, since the session was Anonymous with      *)
(* Session Guard (0, None) and mario's row had failed_attempts 0 and no     *)
(* lock, it made exactly m submissions, each a login as mario with a wrong  *)
(* password; 6 when a 6th login as mario followed 5 of them before the      *)
(* account lock ran out; 7 when the login after that 6th, again as mario    *)
(* with a wrong password, came once the lock had run out; -1 otherwise.     *)

Anonymous(S) == ~S.logged_in /\ ~S.must_change_password
Authenticated(S) == S.logged_in
MustChangePassword(S) == S.must_change_password /\ ~S.logged_in
GuardFresh(S) == S.global_failed_attempts = 0 /\ S.global_lock_until = NoTime
RowFresh(row) == row.exists /\ row.failed_attempts = 0 /\ row.lock_until = NoTime

NextGhosts(n, S, form, S2, t) ==
    IF form.op = "login" /\ n = GLOBAL_MAX_FAILED_ATTEMPTS /\ t < S.global_lock_until
    THEN n + 1
    ELSE IF form.op = "login" /\ n = GLOBAL_MAX_FAILED_ATTEMPTS + 1
            /\ S.global_lock_until # NoTime /\ t >= S.global_lock_until
    THEN n + 1
    ELSE IF form.op = "login" /\ n >= 0 /\ n < GLOBAL_MAX_FAILED_ATTEMPTS
            /\ form.username = GhostNames[n + 1]
    THEN n + 1
    ELSE IF GuardFresh(S2) /\ Anonymous(S2) THEN 0
    ELSE -1

NextWrong(m, rows, form, S2, rows2, t) ==
    IF form.op = "login" /\ form.username = "mario" /\ m = MAX_FAILED_ATTEMPTS
       /\ t < rows["mario"].lock_until
    THEN m + 1
    ELSE IF form.op = "login" /\ form.username = "mario" /\ m = MAX_FAILED_ATTEMPTS + 1
            /\ rows["mario"].lock_until # NoTime /\ t >= rows["mario"].lock_until
            /\ ~authenticate(rows, "mario", form.password)
    THEN m + 1
    ELSE IF form.op = "login" /\ form.username = "mario" /\ m >= 0
            /\ m < MAX_FAILED_ATTEMPTS /\ ~authenticate(rows, "mario", form.password)
    THEN m + 1
    ELSE IF GuardFresh(S2) /\ Anonymous(S2) /\ RowFresh(rows2["mario"]) THEN 0
    ELSE -1

NextStreak(h, S, rows, form, S2, rows2, t) ==
    [ghosts |-> NextGhosts(h.ghosts, S, form, S2, t),
     wrong |-> NextWrong(h.wrong, rows, form, S2, rows2, t)]

\* Unknown usernames a login may name: up to renaming, a new one or the last one.
Ghosts(n) ==
    IF n < 0 THEN {GhostNames[1]}
    ELSE {GhostNames[k] : k \in {n, n + 1} \cap (1..Len(GhostNames))}

----------------------------------------------------------------------------
(* The sequential models: one session, every handler runs to its return     *)

Me == "s1"

CanSubmit(s, d) ==
    /\ req[s].pc = "idle"
    /\ now + d - boot <= MaxElapsed

Handle(s, form, d) ==
    LET t == now + d IN
    \E W \in {Run([users |-> users, S |-> sess[s], R |-> form, fails |-> fails], t)} :
        /\ now' = t
        /\ users' = W.users
        /\ sess' = [sess EXCEPT ![s] = W.S]
        /\ req' = [req EXCEPT ![s] = W.R]
        /\ nreq' = [nreq EXCEPT ![s] = @ + 1]
        /\ streak' = [streak EXCEPT ![s] = NextStreak(@, sess[s], users, form, W.S, W.users, t)]
        /\ fails' = W.fails
        /\ UNCHANGED <<boot, probe>>

LoginForm(u, p) ==
    [IdleReq EXCEPT !.pc = "login_get_user", !.op = "login",
                    !.username = u, !.password = p]

SignupForm(u, p, c, r, salt) ==
    [IdleReq EXCEPT !.pc = "signup_create", !.op = "signup", !.username = u,
                    !.password = p, !.confirm = c, !.role = r, !.salt = salt]

ChangePasswordForm(u, force, cur, p, c, salt) ==
    [IdleReq EXCEPT !.pc = "chpw_check", !.op = "change_password", !.username = u,
                    !.force = force, !.current = cur, !.password = p,
                    !.confirm = c, !.salt = salt]

LogoutForm == [IdleReq EXCEPT !.pc = "logout", !.op = "logout"]

\* main() shows the login and signup tabs only while not is_authenticated().
Login(s, u, p, d) ==
    /\ CanSubmit(s, d)
    /\ ~sess[s].logged_in
    /\ Handle(s, LoginForm(u, p), d)

Signup(s, u, p, c, r, salt, d) ==
    /\ CanSubmit(s, d)
    /\ ~sess[s].logged_in
    /\ Handle(s, SignupForm(u, p, c, r, salt), d)

\* show_login calls the form with force=True once the password has expired.
ForcedChangePassword(s, p, c, salt, d) ==
    /\ CanSubmit(s, d)
    /\ MustChangePassword(sess[s])
    /\ Handle(s, ChangePasswordForm(sess[s].username, TRUE, PwEmpty, p, c, salt), d)

VoluntaryChangePassword(s, cur, p, c, salt, d) ==
    /\ CanSubmit(s, d)
    /\ sess[s].logged_in
    /\ Handle(s, ChangePasswordForm(sess[s].username, FALSE, cur, p, c, salt), d)

\* The sidebar's Logout button exists in the authenticated zone only.
Logout(s, d) ==
    /\ CanSubmit(s, d)
    /\ sess[s].logged_in
    /\ Handle(s, LogoutForm, d)

LoginNames == {"mario", "alice"}

\* The forms the model submits: (password, confirm) pairs that pass, that
\* differ, and that break the policy; two of the selectbox's roles.
SignupNames == {"", "alice", "mario"}
NewPasswordPairs == {<<PwGood, PwGood>>, <<PwGood, PwGood2>>, <<Pw1234, Pw1234>>}
ChangePairs == {<<PwGood2, PwGood2>>, <<PwGood2, PwGood>>, <<PwAbcd, PwAbcd>>}
Roles == {"Viewer", "Manager"}
LoginPasswords == {Pw1234, PwGood, PwGood2}

More(s, max) == nreq[s] < max

Next ==
    \/ \E u \in LoginNames \cup Ghosts(streak[Me].ghosts), p \in LoginPasswords, d \in Delays :
          More(Me, MaxRequests) /\ Login(Me, u, p, d)
    \/ \E u \in SignupNames, pc \in NewPasswordPairs, r \in Roles, salt \in Salts,
          d \in Delays : More(Me, MaxRequests) /\ Signup(Me, u, pc[1], pc[2], r, salt, d)
    \/ \E pc \in ChangePairs, salt \in Salts, d \in Delays :
          More(Me, MaxRequests) /\ ForcedChangePassword(Me, pc[1], pc[2], salt, d)
    \/ \E cur \in {Pw1234, PwGood}, pc \in ChangePairs, salt \in Salts, d \in Delays :
          More(Me, MaxRequests) /\ VoluntaryChangePassword(Me, cur, pc[1], pc[2], salt, d)
    \/ \E d \in Delays : More(Me, MaxRequests) /\ Logout(Me, d)

Spec == Init /\ [][Next]_vars

----------------------------------------------------------------------------
(* The login-only model: one session that only submits the login form       *)

NextLogin ==
    \E u \in {"mario"} \cup Ghosts(streak[Me].ghosts), p \in {Pw1234, PwGood}, d \in Delays :
       More(Me, MaxSprayRequests) /\ Login(Me, u, p, d)

SpecLogin == Init /\ [][NextLogin]_vars

----------------------------------------------------------------------------
(* The forced-change model: one session that an expired login as mario has  *)
(* left bound to change the password, with no or eleven global failures     *)
(* counted since; it submits the forced form, logins as mario and logouts.  *)

InitChange ==
    /\ now = PASSWORD_EXPIRY_DAYS * SecondsPerDay
    /\ boot = now
    /\ users = seed_initial_users(EmptyTable, SeedData, 1, 0)
    /\ \E g \in {0, GLOBAL_MAX_FAILED_ATTEMPTS - 1} :
          sess = [s \in Sessions |->
                    IF s = Me
                    THEN [NewSession EXCEPT !.must_change_password = TRUE,
                                            !.username = "mario",
                                            !.global_failed_attempts = g]
                    ELSE NewSession]
    /\ req = [s \in Sessions |-> IdleReq]
    /\ nreq = [s \in Sessions |-> 0]
    /\ streak = [s \in Sessions |-> [ghosts |-> -1, wrong |-> -1]]
    /\ fails = [u \in Usernames |-> 0]
    /\ probe = NoProbe

NextChange ==
    \/ \E p \in {Pw1234, PwGood}, d \in Delays :
          More(Me, MaxChangeRequests) /\ Login(Me, "mario", p, d)
    \/ \E pc \in ChangePairs, salt \in Salts, d \in Delays :
          More(Me, MaxChangeRequests) /\ ForcedChangePassword(Me, pc[1], pc[2], salt, d)
    \/ \E d \in Delays : More(Me, MaxChangeRequests) /\ Logout(Me, d)

SpecChange == InitChange /\ [][NextChange]_vars

----------------------------------------------------------------------------
(* The threshold model: the session of the forced-change model, one failure  *)
(* short of the global threshold or fresh, submitting every form it can.    *)

NextThreshold ==
    \/ \E p \in {Pw1234, PwGood}, d \in Delays :
          More(Me, MaxThresholdRequests) /\ Login(Me, "mario", p, d)
    \/ \E u \in SignupNames, pc \in NewPasswordPairs, salt \in Salts, d \in Delays :
          More(Me, MaxThresholdRequests) /\ Signup(Me, u, pc[1], pc[2], "Viewer", salt, d)
    \/ \E pc \in ChangePairs, salt \in Salts, d \in Delays :
          More(Me, MaxThresholdRequests) /\ ForcedChangePassword(Me, pc[1], pc[2], salt, d)
    \/ \E cur \in {Pw1234, PwGood2}, pc \in ChangePairs, salt \in Salts, d \in Delays :
          More(Me, MaxThresholdRequests)
            /\ VoluntaryChangePassword(Me, cur, pc[1], pc[2], salt, d)
    \/ \E d \in Delays : More(Me, MaxThresholdRequests) /\ Logout(Me, d)

SpecThreshold == InitChange /\ [][NextThreshold]_vars

----------------------------------------------------------------------------
(* The lockout model: one session that logs in as mario and logs out, from  *)
(* a row with no or four failures and a session with no or ten; probe.at is  *)
(* the instant of the registered failure that locked the row (none once a    *)
(* later failure was registered), probe.calls the logins made against the    *)
(* row during that lockout.                                                  *)

InitLockout ==
    /\ now \in StartTimes
    /\ boot = now
    /\ \E fa \in {0, MAX_FAILED_ATTEMPTS - 1} :
          /\ users = [seed_initial_users(EmptyTable, SeedData, 1, 0)
                          EXCEPT !["mario"].failed_attempts = fa]
          /\ fails = [u \in Usernames |-> IF u = "mario" THEN fa ELSE 0]
    /\ \E g \in {0, GLOBAL_MAX_FAILED_ATTEMPTS - 2} :
          sess = [s \in Sessions |->
                    IF s = Me THEN [NewSession EXCEPT !.global_failed_attempts = g]
                    ELSE NewSession]
    /\ req = [s \in Sessions |-> IdleReq]
    /\ nreq = [s \in Sessions |-> 0]
    /\ streak = [s \in Sessions |-> [ghosts |-> -1, wrong |-> -1]]
    /\ probe = NoProbe

LockoutLogin(p, d) ==
    LET t == now + d IN
    /\ CanSubmit(Me, d)
    /\ ~sess[Me].logged_in
    /\ \E W \in {Run([users |-> users, S |-> sess[Me], R |-> LoginForm("mario", p),
                       fails |-> fails], t)} :
          /\ now' = t
          /\ users' = W.users
          /\ sess' = [sess EXCEPT ![Me] = W.S]
          /\ req' = [req EXCEPT ![Me] = W.R]
          /\ nreq' = [nreq EXCEPT ![Me] = @ + 1]
          /\ fails' = W.fails
          /\ probe' =
                IF W.R.outcome.msg \in {"WrongCredentials", "GlobalMaxReached"}
                THEN [probe EXCEPT !.at = IF W.users["mario"].lock_until # NoTime
                                          THEN t ELSE NoTime,
                                   !.calls = 0, !.total = @ + 1]
                ELSE IF users["mario"].lock_until # NoTime
                        /\ t < users["mario"].lock_until
                THEN [probe EXCEPT !.calls = @ + 1, !.total = @ + 1]
                ELSE [probe EXCEPT !.total = @ + 1]
    /\ UNCHANGED <<boot, streak>>

NextLockout ==
    \/ \E p \in {Pw1234, PwGood}, d \in Delays :
          More(Me, MaxLockoutRequests) /\ LockoutLogin(p, d)
    \/ \E d \in Delays : More(Me, MaxLockoutRequests) /\ Logout(Me, d)

SpecLockout == InitLockout /\ [][NextLockout]_vars

----------------------------------------------------------------------------
(* The failing-store model: one session; for each form it submits, the      *)
(* writes to the table either all succeed or all fail with sqlite3.Error.   *)

LoginUnder(s, u, p, fault, d) ==
    /\ CanSubmit(s, d)
    /\ ~sess[s].logged_in
    /\ Handle(s, [LoginForm(u, p) EXCEPT !.fault = fault], d)

SignupUnder(s, u, p, c, r, salt, fault, d) ==
    /\ CanSubmit(s, d)
    /\ ~sess[s].logged_in
    /\ Handle(s, [SignupForm(u, p, c, r, salt) EXCEPT !.fault = fault], d)

ChangePasswordUnder(s, cur, p, c, salt, fault, d) ==
    /\ CanSubmit(s, d)
    /\ MustChangePassword(sess[s]) \/ sess[s].logged_in
    /\ Handle(s, [ChangePasswordForm(sess[s].username, ~sess[s].logged_in, cur, p, c, salt)
                     EXCEPT !.fault = fault], d)

NextFault ==
    \/ \E p \in {Pw1234, PwGood}, fault \in BOOLEAN, d \in Delays :
          More(Me, MaxFaultRequests) /\ LoginUnder(Me, "mario", p, fault, d)
    \/ \E u \in {"alice", "mario"}, pc \in NewPasswordPairs, fault \in BOOLEAN, d \in Delays :
          More(Me, MaxFaultRequests)
          /\ SignupUnder(Me, u, pc[1], pc[2], "Viewer", 1, fault, d)
    \/ \E pc \in ChangePairs, fault \in BOOLEAN, d \in Delays :
          More(Me, MaxFaultRequests)
          /\ ChangePasswordUnder(Me, Pw1234, pc[1], pc[2], 1, fault, d)

SpecFault == Init /\ [][NextFault]_vars

----------------------------------------------------------------------------
(* The unreadable-timestamp model: mario's lock_until or the session's      *)
(* global_lock_until may hold text that parse_iso cannot read; one session  *)
(* submits logins as mario and as lucas.                                    *)

InitParse ==
    /\ now = 0
    /\ boot = now
    /\ \E ut \in {NoTime, BadTime}, fa \in {0, MAX_FAILED_ATTEMPTS - 1} :
          users = [seed_initial_users(EmptyTable, SeedData, 1, 0)
                      EXCEPT !["mario"].lock_until = ut,
                             !["mario"].failed_attempts = fa]
    /\ \E gt \in {NoTime, BadTime} :
          sess = [s \in Sessions |->
                    IF s = Me THEN [NewSession EXCEPT !.global_lock_until = gt]
                    ELSE NewSession]
    /\ req = [s \in Sessions |-> IdleReq]
    /\ nreq = [s \in Sessions |-> 0]
    /\ streak = [s \in Sessions |-> [ghosts |-> -1, wrong |-> -1]]
    /\ fails = [u \in Usernames |-> 0]
    /\ probe = NoProbe

NextParse ==
    \E u \in {"mario", "lucas"}, p \in {Pw1234, PwGood}, d \in Delays :
       More(Me, MaxParseRequests) /\ Login(Me, u, p, d)

SpecParse == InitParse /\ [][NextParse]_vars

----------------------------------------------------------------------------
(* The concurrent model: two sessions on one table; a handler advances by   *)
(* one access to the store at a time, each its own connection and commit.   *)

InitConc ==
    /\ now \in StartTimes
    /\ boot = now
    /\ \E fa \in {0, MAX_FAILED_ATTEMPTS - 1} :
          /\ users = [seed_initial_users(EmptyTable, SeedData, 1, 0)
                          EXCEPT !["mario"].failed_attempts = fa]
          /\ fails = [u \in Usernames |-> IF u = "mario" THEN fa ELSE 0]
    /\ sess = [s \in Sessions |-> NewSession]
    /\ req = [s \in Sessions |-> IdleReq]
    /\ nreq = [s \in Sessions |-> 0]
    /\ streak = [s \in Sessions |-> NoStreak]
    /\ probe = NoProbe

Submit(s, form, d) ==
    /\ req[s].pc = "idle"
    /\ nreq["s1"] + nreq["s2"] < MaxConcRequests
    /\ now' = now + d
    /\ req' = [req EXCEPT ![s] = form]
    /\ nreq' = [nreq EXCEPT ![s] = @ + 1]
    /\ UNCHANGED <<boot, users, sess, streak, fails, probe>>

SubmitLogin(s, u, p, d) ==
    /\ ~sess[s].logged_in
    /\ Submit(s, LoginForm(u, p), d)

SubmitSignup(s, u, p, c, r, salt, d) ==
    /\ ~sess[s].logged_in
    /\ Submit(s, SignupForm(u, p, c, r, salt), d)

StepHandler(s) ==
    /\ req[s].pc # "idle"
    /\ LET W == Step([users |-> users, S |-> sess[s], R |-> req[s], fails |-> fails], now)
       IN  /\ users' = W.users
           /\ sess' = [sess EXCEPT ![s] = W.S]
           /\ req' = [req EXCEPT ![s] = W.R]
           /\ fails' = W.fails
    /\ UNCHANGED <<now, boot, nreq, streak, probe>>

ConcDelays == {0, 1}
ConcPasswordPairs == {<<PwGood, PwGood>>, <<PwGood2, PwGood2>>}

NextConc ==
    \E s \in Sessions :
       \/ \E p \in {Pw1234, PwGood}, d \in ConcDelays :
             SubmitLogin(s, "mario", p, d)
       \/ \E pc \in ConcPasswordPairs, salt \in Salts, d \in ConcDelays :
             SubmitSignup(s, "alice", pc[1], pc[2], "Viewer", salt, d)
       \/ StepHandler(s)

SpecConc == InitConc /\ [][NextConc]_vars

----------------------------------------------------------------------------
(* The Account Guard called directly on mario's row, with any parameters    *)

GuardUser == "mario"
GuardDelays == {1, SecondsPerMinute - 1}

InitGuard ==
    /\ now = 0
    /\ boot = now
    /\ users = seed_initial_users(EmptyTable, SeedData, 1, 0)
    /\ sess = [s \in Sessions |-> NewSession]
    /\ req = [s \in Sessions |-> IdleReq]
    /\ nreq = [s \in Sessions |-> 0]
    /\ streak = [s \in Sessions |-> NoStreak]
    /\ fails = [u \in Usernames |-> 0]
    /\ \E m \in 1..MaxAttemptsParam, l \in 1..MaxMinutesParam :
          probe = [NoProbe EXCEPT !.max_attempts = m, !.lock_minutes = l]

\* db.register_failed_attempt(username, max_attempts, lock_minutes), alone on the table.
register_failed_attempt(rows, username, max_attempts, lock_minutes, t) ==
    LET r == register_failed_attempt_read(rows, username, max_attempts, lock_minutes, t) IN
    IF r.found
    THEN register_failed_attempt_write(rows, username, r.fa, r.lock_until)
    ELSE rows

\* probe.calls: registerFailure calls made in a row since the row was (0, unset).
GuardRegister(d) ==
    /\ probe.total < MaxGuardCalls
    /\ now' = now + d
    /\ users' = register_failed_attempt(users, GuardUser, probe.max_attempts,
                                        probe.lock_minutes, now')
    /\ fails' = [fails EXCEPT ![GuardUser] = @ + 1]
    /\ probe' = [probe EXCEPT !.calls = @ + 1, !.total = @ + 1,
                              !.last = "register", !.prev = probe.last,
                              !.at = now']
    /\ UNCHANGED <<boot, sess, req, nreq, streak>>

GuardIsLocked(d) ==
    /\ probe.total < MaxGuardCalls
    /\ now' = now + d
    /\ LET l == is_locked(get_user(users, GuardUser), now') IN
          /\ users' = IF l.reset THEN reset_failed_attempts(users, GuardUser) ELSE users
          /\ fails' = IF l.reset THEN [fails EXCEPT ![GuardUser] = 0] ELSE fails
          /\ probe' = [probe EXCEPT !.calls = IF l.reset THEN 0 ELSE @,
                                    !.total = @ + 1, !.last = "is_locked",
                                    !.prev = probe.last,
                                    !.locked = l.locked, !.minutes = l.minutes,
                                    !.reset = l.reset]
    /\ UNCHANGED <<boot, sess, req, nreq, streak>>

GuardReset(d) ==
    /\ probe.total < MaxGuardCalls
    /\ now' = now + d
    /\ users' = reset_failed_attempts(users, GuardUser)
    /\ fails' = [fails EXCEPT ![GuardUser] = 0]
    /\ probe' = [probe EXCEPT !.calls = 0, !.total = @ + 1, !.last = "reset",
                              !.prev = probe.last]
    /\ UNCHANGED <<boot, sess, req, nreq, streak>>

NextGuard ==
    \E d \in GuardDelays : GuardRegister(d) \/ GuardIsLocked(d) \/ GuardReset(d)

SpecGuard == InitGuard /\ [][NextGuard]_vars

----------------------------------------------------------------------------
(* The password policy on its own: validate_password applied to what a      *)
(* password field holds                                                     *)

\* A letter outside A-Z and a-z; re.search(r"[^A-Za-z0-9]") matches it.
OtherLetters == {"ñ"}
Letters == Upper \cup Lower \cup OtherLetters

PwAbc == <<"a","b","c">>
PwAbcdefgh == <<"a","b","c","d","e","f","g","h">>
PwAbcdefghCap == <<"A","b","c","d","e","f","g","h">>
PwSevenCap == <<"A","b","c","d","e","f","g">>
PwSevenDigit == <<"a","b","c","d","e","f","1">>

\* What the field holds at first, and the characters typed after it: one
\* uppercase letter, one lowercase letter, one digit, one punctuation mark and
\* one letter outside the ASCII ranges.
StartPasswords == {PwEmpty, PwAbc, PwAbcdefgh, PwAbcdefghCap, PwGood, PwSevenCap, PwSevenDigit}
PolicyAlphabet == {"A", "b", "1", "!", "ñ"}

InitPolicy ==
    /\ now = 0
    /\ boot = 0
    /\ users = EmptyTable
    /\ sess = [s \in Sessions |-> NewSession]
    /\ req = [s \in Sessions |-> IdleReq]
    /\ nreq = [s \in Sessions |-> 0]
    /\ streak = [s \in Sessions |-> NoStreak]
    /\ fails = [u \in Usernames |-> 0]
    /\ \E p \in StartPasswords :
          probe = [password |-> p, typed |-> 0, checked |-> FALSE, accepted |-> FALSE]

PolicyType(c) ==
    /\ probe.typed < MaxTyped
    /\ probe' = [probe EXCEPT !.password = Append(@, c), !.typed = @ + 1,
                              !.checked = FALSE, !.accepted = FALSE]
    /\ UNCHANGED <<now, boot, users, sess, req, nreq, streak, fails>>

PolicyCheck ==
    /\ ~probe.checked
    /\ probe' = [probe EXCEPT !.checked = TRUE,
                              !.accepted = validate_password(probe.password)]
    /\ UNCHANGED <<now, boot, users, sess, req, nreq, streak, fails>>

NextPolicy == (\E c \in PolicyAlphabet : PolicyType(c)) \/ PolicyCheck

SpecPolicy == InitPolicy /\ [][NextPolicy]_vars

----------------------------------------------------------------------------
(* The expiry check on its own: is_password_expired evaluated on one record *)
(* as time passes, for several values of PASSWORD_EXPIRY_DAYS               *)

ExpiryUser == "mario"
ExpiryDays == (0 - 1)..MaxExpiryDays
LastSetTimes == {NoTime, BadTime, 0, 1}

\* Seconds between two evaluations: the next second, or one second short of a day.
ExpiryDelays == {1, SecondsPerDay - 1}

InitExpiry ==
    /\ now = 0
    /\ boot = 0
    /\ \E last \in LastSetTimes :
          users = [seed_initial_users(EmptyTable, SeedData, 1, 0)
                      EXCEPT ![ExpiryUser].password_last_set = last]
    /\ sess = [s \in Sessions |-> NewSession]
    /\ req = [s \in Sessions |-> IdleReq]
    /\ nreq = [s \in Sessions |-> 0]
    /\ streak = [s \in Sessions |-> NoStreak]
    /\ fails = [u \in Usernames |-> 0]
    /\ \E days \in ExpiryDays :
          probe = [expiry_days |-> days, calls |-> 0, expired |-> FALSE]

ExpiryCheck(d) ==
    /\ probe.calls < MaxExpiryCalls
    /\ now' = now + d
    /\ probe' = [probe EXCEPT !.calls = @ + 1,
                              !.expired = is_password_expired_in(
                                  get_user(users, ExpiryUser), now', probe.expiry_days)]
    /\ UNCHANGED <<boot, users, sess, req, nreq, streak, fails>>

NextExpiry == \E d \in ExpiryDelays : ExpiryCheck(d)

SpecExpiry == InitExpiry /\ [][NextExpiry]_vars

----------------------------------------------------------------------------
(* The seeding on its own: main() calls db.seed_initial_users at every      *)
(* script run, on whatever the table holds by then                          *)

SeedUser == "mario"
SeedDelays == {1, SecondsPerMinute - 1}

\* The table at first: any of the seed usernames may be there already, with
\* credentials and a role of its own.
InitSeed ==
    /\ now = 0
    /\ boot = 0
    /\ \E present \in SUBSET SeedNames :
          users = [u \in Usernames |->
                     IF u \in present THEN NewRow(u, PwGood, "Viewer", 1, 0) ELSE NoUser]
    /\ sess = [s \in Sessions |-> NewSession]
    /\ req = [s \in Sessions |-> IdleReq]
    /\ nreq = [s \in Sessions |-> 0]
    /\ streak = [s \in Sessions |-> NoStreak]
    /\ fails = [u \in Usernames |-> 0]
    /\ probe = NoProbe

SeedRun(salt, d) ==
    /\ probe.total < MaxSeedCalls
    /\ now' = now + d
    /\ users' = seed_initial_users(users, SeedData, salt, now')
    /\ probe' = [probe EXCEPT !.total = @ + 1, !.last = "seed", !.prev = probe.last]
    /\ UNCHANGED <<boot, sess, req, nreq, streak, fails>>

SeedRegisterFailure(d) ==
    /\ probe.total < MaxSeedCalls
    /\ now' = now + d
    /\ users' = register_failed_attempt(users, SeedUser, MAX_FAILED_ATTEMPTS,
                                        LOCKOUT_MINUTES, now')
    /\ probe' = [probe EXCEPT !.total = @ + 1, !.last = "register", !.prev = probe.last]
    /\ UNCHANGED <<boot, sess, req, nreq, streak, fails>>

SeedSetPassword(salt, d) ==
    /\ probe.total < MaxSeedCalls
    /\ now' = now + d
    /\ users' = set_new_password(users, SeedUser, PwGood2, salt, now')
    /\ probe' = [probe EXCEPT !.total = @ + 1, !.last = "set_new_password",
                              !.prev = probe.last]
    /\ UNCHANGED <<boot, sess, req, nreq, streak, fails>>

SeedCreateUser(u, salt, d) ==
    /\ probe.total < MaxSeedCalls
    /\ now' = now + d
    /\ users' = create_user(users, u, PwGood, "Manager", salt, now').rows
    /\ probe' = [probe EXCEPT !.total = @ + 1, !.last = "create_user",
                              !.prev = probe.last]
    /\ UNCHANGED <<boot, sess, req, nreq, streak, fails>>

NextSeed ==
    \E salt \in Salts, d \in SeedDelays :
        \/ SeedRun(salt, d)
        \/ SeedRegisterFailure(d)
        \/ SeedSetPassword(salt, d)
        \/ \E u \in {"alice", "lucas"} : SeedCreateUser(u, salt, d)

SpecSeed == InitSeed /\ [][NextSeed]_vars

----------------------------------------------------------------------------
(* Seeding from two sessions at once: each main() runs its own              *)
(* db.seed_initial_users on its own connection. A SELECT reads the committed *)
(* table and the connection's own uncommitted rows; the first INSERT of a    *)
(* connection opens its transaction and takes the database's write lock,     *)
(* waiting while the other connection holds it; the commit after the loop    *)
(* publishes the rows and frees the lock. An INSERT of a username that the   *)
(* table holds by then raises sqlite3.IntegrityError (username is UNIQUE):   *)
(* the with-block rolls the connection's rows back and the exception leaves  *)
(* seed_initial_users and main().                                            *)

\* seed.items() in the order main() writes the dict.
SeedOrder == <<"mario", "lucas", "irene">>

NoWriter == "<None>"

SeedIdle == [pc |-> "idle", i |-> 1, salt |-> 0, pending |-> {}, error |-> "None"]

InitSeedConc ==
    /\ now = 0
    /\ boot = 0
    /\ \E present \in SUBSET SeedNames :
          /\ users = [u \in Usernames |->
                        IF u \in present THEN NewRow(u, PwGood, "Viewer", 1, 0) ELSE NoUser]
          /\ probe = [writer |-> NoWriter, absent |-> SeedNames \ present]
    /\ sess = [s \in Sessions |-> NewSession]
    /\ req = [s \in Sessions |-> SeedIdle]
    /\ nreq = [s \in Sessions |-> 0]
    /\ streak = [s \in Sessions |-> NoStreak]
    /\ fails = [u \in Usernames |-> 0]

\* main() reaches db.seed_initial_users: the connection is opened.
SeedStart(s, salt) ==
    /\ req[s].pc = "idle"
    /\ nreq[s] = 0
    /\ req' = [req EXCEPT ![s] = [SeedIdle EXCEPT !.pc = "seed_select", !.salt = salt]]
    /\ nreq' = [nreq EXCEPT ![s] = 1]
    /\ UNCHANGED <<now, boot, users, sess, streak, fails, probe>>

\* SELECT 1 FROM users WHERE username = ?; continue when a row comes back.
SeedSelect(s) ==
    /\ req[s].pc = "seed_select"
    /\ LET u == SeedOrder[req[s].i]
           found == get_user(users, u).exists \/ u \in req[s].pending
       IN  req' = [req EXCEPT ![s] =
                     IF ~found THEN [@ EXCEPT !.pc = "seed_insert"]
                     ELSE IF req[s].i < Len(SeedOrder) THEN [@ EXCEPT !.i = @ + 1]
                     ELSE [@ EXCEPT !.pc = "seed_commit"]]
    /\ UNCHANGED <<now, boot, users, sess, nreq, streak, fails, probe>>

\* INSERT INTO users ...: under the write lock, against the table as committed.
SeedInsert(s) ==
    /\ req[s].pc = "seed_insert"
    /\ probe.writer \in {NoWriter, s}
    /\ LET u == SeedOrder[req[s].i] IN
          IF get_user(users, u).exists
          THEN /\ req' = [req EXCEPT ![s] = [@ EXCEPT !.pc = "raised", !.pending = {},
                                                     !.error = "IntegrityError"]]
               /\ probe' = [probe EXCEPT !.writer = NoWriter]
          ELSE /\ req' = [req EXCEPT ![s] =
                             [@ EXCEPT !.pending = @ \cup {u},
                                       !.pc = IF req[s].i < Len(SeedOrder)
                                              THEN "seed_select" ELSE "seed_commit",
                                       !.i = IF req[s].i < Len(SeedOrder)
                                             THEN @ + 1 ELSE @]]
               /\ probe' = [probe EXCEPT !.writer = s]
    /\ UNCHANGED <<now, boot, users, sess, nreq, streak, fails>>

\* conn.commit() after the loop.
SeedCommit(s) ==
    /\ req[s].pc = "seed_commit"
    /\ users' = [u \in Usernames |->
                    IF u \in req[s].pending
                    THEN NewRow(u, SeedData[u].password, SeedData[u].role, req[s].salt, now)
                    ELSE users[u]]
    /\ req' = [req EXCEPT ![s] = [@ EXCEPT !.pc = "done", !.pending = {}]]
    /\ probe' = [probe EXCEPT !.writer = NoWriter]
    /\ UNCHANGED <<now, boot, sess, nreq, streak, fails>>

NextSeedConc ==
    \E s \in Sessions :
        \/ \E salt \in Salts : SeedStart(s, salt)
        \/ SeedSelect(s)
        \/ SeedInsert(s)
        \/ SeedCommit(s)

SpecSeedConc == InitSeedConc /\ [][NextSeedConc]_vars

----------------------------------------------------------------------------
(* Properties                                                              *)

GlobalLockActive(S, t) == S.global_lock_until # NoTime /\ t < S.global_lock_until
UserLockActive(row, t) == row.lock_until # NoTime /\ t < row.lock_until

\* C1: after 12 logins in a row from an Anonymous session with Session
\* Guard (0, None), each naming another unknown username, the global lock is
\* active; a 13th login before the lock runs out is answered GlobalLockActive
\* and the session is still Anonymous, whatever username and password it gives.
C1_TwelveUnknownNamesLock ==
    /\ streak[Me].ghosts = GLOBAL_MAX_FAILED_ATTEMPTS =>
          GlobalLockActive(sess[Me], now)
    /\ streak[Me].ghosts = GLOBAL_MAX_FAILED_ATTEMPTS + 1 =>
          /\ req[Me].outcome.msg = "GlobalLockActive"
          /\ Anonymous(sess[Me])
          /\ GlobalLockActive(sess[Me], now)

\* The 13th login gave the right password of mario, whose account is not locked.
C1_Witness ==
    /\ streak[Me].ghosts = GLOBAL_MAX_FAILED_ATTEMPTS + 1
    /\ req[Me].op = "login" /\ req[Me].username = "mario"
    /\ authenticate(users, "mario", req[Me].password)
    /\ ~UserLockActive(users["mario"], now)
    /\ ~is_password_expired(users["mario"], now)

\* C2: on a row that had failed_attempts 0 and no lock, an is_locked
\* evaluation after n registerFailure calls in a row answers not locked while
\* n < max_attempts; after exactly max_attempts calls, and within lock_minutes
\* of the last one, it answers locked with 1 <= minutes <= lock_minutes.
C2_LockAtThreshold ==
    probe.last = "is_locked" =>
       /\ probe.calls < probe.max_attempts => ~probe.locked
       /\ (/\ probe.calls = probe.max_attempts
           /\ now < probe.at + probe.lock_minutes * SecondsPerMinute)
          => /\ probe.locked
             /\ probe.minutes >= 1
             /\ probe.minutes <= probe.lock_minutes

\* Three calls with max_attempts 3 and lock_minutes 2, asked in the last minute.
C2_Witness ==
    /\ probe.last = "is_locked"
    /\ probe.max_attempts = 3 /\ probe.lock_minutes = 2
    /\ probe.calls = probe.max_attempts
    /\ probe.locked /\ probe.minutes = 1

\* C3 as the specification states it: the 5th wrong password for mario in a
\* row is itself answered AccountLocked, and so is a 6th login before the
\* lock runs out.
C3_FifthAnswersLocked ==
    /\ streak[Me].wrong = MAX_FAILED_ATTEMPTS =>
          req[Me].outcome.msg = "AccountLocked"
    /\ streak[Me].wrong = MAX_FAILED_ATTEMPTS + 1 =>
          req[Me].outcome.msg = "AccountLocked"

\* C3, amended: the 5th wrong password for mario in a row is answered as a
\* wrong password with 0 attempts left for the user, and it locks the account
\* for 15 minutes from then; a 6th login as mario before the lock runs out is
\* answered AccountLocked with 1 to 15 minutes left; the session stays Anonymous.
C3_FifthLocksSixthRejected ==
    /\ streak[Me].wrong = MAX_FAILED_ATTEMPTS =>
          /\ req[Me].outcome.msg = "WrongCredentials"
          /\ req[Me].outcome.remaining_user = 0
          /\ users["mario"].failed_attempts = MAX_FAILED_ATTEMPTS
          /\ users["mario"].lock_until = now + LOCKOUT_MINUTES * SecondsPerMinute
          /\ Anonymous(sess[Me])
    /\ streak[Me].wrong = MAX_FAILED_ATTEMPTS + 1 =>
          /\ req[Me].outcome.msg = "AccountLocked"
          /\ req[Me].outcome.minutes >= 1
          /\ req[Me].outcome.minutes <= LOCKOUT_MINUTES
          /\ Anonymous(sess[Me])

\* The 6th login came one second after the 5th, with mario's right password.
C3_Witness ==
    /\ streak[Me].wrong = MAX_FAILED_ATTEMPTS + 1
    /\ req[Me].username = "mario"
    /\ authenticate(users, "mario", req[Me].password)
    /\ req[Me].outcome.minutes = LOCKOUT_MINUTES

\* C4: in a session alone on the table, a login naming a user whose
\* lock_until is set and later than the instant of the login does not make
\* the session Authenticated or MustChangePassword, whatever the password:
\* it is answered AccountLocked (or GlobalLockActive) before the password is
\* verified, and the session's identity and flags are as before.
C4_LockedLoginRejected ==
    [][LET u == req'[Me].username IN
       (/\ nreq'[Me] = nreq[Me] + 1
        /\ req'[Me].op = "login"
        /\ u \in DOMAIN users
        /\ UserLockActive(users[u], now'))
       => /\ req'[Me].outcome.msg \in {"AccountLocked", "GlobalLockActive"}
          /\ ~sess'[Me].logged_in
          /\ sess'[Me].must_change_password = sess[Me].must_change_password
          /\ sess'[Me].username = sess[Me].username
          /\ sess'[Me].role = sess[Me].role]_vars

\* A login with mario's right password was answered AccountLocked.
C4_Witness ==
    /\ req[Me].op = "login" /\ req[Me].username = "mario"
    /\ req[Me].outcome.msg = "AccountLocked"
    /\ authenticate(users, "mario", req[Me].password)
    /\ UserLockActive(users["mario"], now)
    /\ Anonymous(sess[Me])

\* C5: a failed login reports the same outcome whether the username is
\* missing or the password is wrong: replayed from the same session state
\* and instant on a table that differs only in lacking the attempted row, a
\* wrong-password login gives the same message and leaves the same session.
C5_FailedLoginIndistinguishable ==
    [][LET u == req'[Me].username
           p == req'[Me].password
           absent == Run([users |-> [users EXCEPT ![u] = NoUser], S |-> sess[Me],
                          R |-> LoginForm(u, p), fails |-> fails], now')
       IN (/\ nreq'[Me] = nreq[Me] + 1
           /\ req'[Me].op = "login"
           /\ get_user(users, u).exists
           /\ ~authenticate(users, u, p))
          => /\ req'[Me].outcome = absent.R.outcome
             /\ sess'[Me] = absent.S]_vars

\* C6: a login with the right password for an existing user, with neither
\* the session's lock nor the user's lock active and the password not
\* expired, leaves the row with failed_attempts 0 and no lock_until, the
\* session's guard at (0, None), and the session logged in under that
\* username with the role stored in the row.
C6_GoodLoginResetsAndBinds ==
    [][LET u == req'[Me].username
           p == req'[Me].password
       IN (/\ nreq'[Me] = nreq[Me] + 1
           /\ req'[Me].op = "login"
           /\ authenticate(users, u, p)
           /\ ~GlobalLockActive(sess[Me], now')
           /\ ~UserLockActive(get_user(users, u), now')
           /\ ~is_password_expired(get_user(users, u), now'))
          => /\ users'[u].failed_attempts = 0
             /\ users'[u].lock_until = NoTime
             /\ GuardFresh(sess'[Me])
             /\ Authenticated(sess'[Me])
             /\ sess'[Me].username = u
             /\ sess'[Me].role = users[u].role
             /\ req'[Me].outcome.msg = "Welcome"]_vars

\* mario is logged in after failures had been counted against the row and
\* the session: both counters are back to zero.
C6_Witness ==
    /\ req[Me].op = "login" /\ req[Me].outcome.msg = "Welcome"
    /\ nreq[Me] >= 2
    /\ Authenticated(sess[Me])
    /\ sess[Me].username = "mario" /\ sess[Me].role = "Admin"
    /\ RowFresh(users["mario"]) /\ GuardFresh(sess[Me])

\* C7: a login with the right password for a user whose password is expired
\* leaves the session MustChangePassword under that username and not logged
\* in; and a session becomes logged in under a username whose password is
\* expired, or under the username it must change the password of, only by a
\* change_password that found no global lock, new = confirm and the policy
\* met, and that stored the new password (set_new_password).
C7_ExpiredNeedsChange ==
    [][LET u == req'[Me].username
           p == req'[Me].password
           v == sess'[Me].username
       IN /\ (/\ nreq'[Me] = nreq[Me] + 1
              /\ req'[Me].op = "login"
              /\ authenticate(users, u, p)
              /\ ~GlobalLockActive(sess[Me], now')
              /\ ~UserLockActive(get_user(users, u), now')
              /\ is_password_expired(get_user(users, u), now'))
             => /\ MustChangePassword(sess'[Me])
                /\ sess'[Me].username = u
                /\ req'[Me].outcome.msg = "PasswordExpired"
          /\ (/\ ~Authenticated(sess[Me])
              /\ Authenticated(sess'[Me])
              /\ \/ is_password_expired(get_user(users, v), now')
                 \/ MustChangePassword(sess[Me]) /\ v = sess[Me].username)
             => /\ req'[Me].op = "change_password"
                /\ req'[Me].username = v
                /\ req'[Me].outcome.msg = "PasswordUpdated"
                /\ ~GlobalLockActive(sess[Me], now')
                /\ req'[Me].password = req'[Me].confirm
                /\ validate_password(req'[Me].password)
                /\ authenticate(users', v, req'[Me].password)
                /\ users'[v].password_last_set = now']_vars

\* After an expired login, mario is logged in by the forced change.
C7_Witness ==
    /\ req[Me].op = "change_password" /\ req[Me].force
    /\ req[Me].outcome.msg = "PasswordUpdated"
    /\ Authenticated(sess[Me]) /\ sess[Me].username = "mario"
    /\ users["mario"].password_last_set = now
    /\ now >= PASSWORD_EXPIRY_DAYS * SecondsPerDay

\* C8: of the create_user calls for one username, made one after the other
\* or by two sessions at once, the call that finds no row succeeds and
\* inserts its own credential, every other call answers DuplicateUsername
\* and changes nothing, and the credential of an existing row is never
\* replaced; so when two sessions have each signed "alice" up once, exactly
\* one got SignupOk, the other DuplicateUsername, and the one row holds the
\* winner's password.
C8_OneCreateWins ==
    [][/\ \A s \in Sessions :
            (/\ req[s].pc = "signup_create" /\ req'[s].pc = "idle"
             /\ ~GlobalLockActive(sess[s], now)
             /\ req[s].username # ""
             /\ validate_password(req[s].password)
             /\ req[s].password = req[s].confirm)
            => LET u == req[s].username IN
               /\ req'[s].outcome.msg \in {"SignupOk", "DuplicateUsername"}
               /\ (req'[s].outcome.msg = "SignupOk") <=> ~get_user(users, u).exists
               /\ req'[s].outcome.msg = "SignupOk"
                     => users' = [users EXCEPT ![u] = NewRow(u, req[s].password,
                                                    req[s].role, req[s].salt, now)]
               /\ req'[s].outcome.msg = "DuplicateUsername" => users' = users
       /\ \A u \in DOMAIN users :
            users[u].exists
            => /\ users'[u].exists
               /\ users'[u].username = users[u].username
               /\ users'[u].salt_hex = users[u].salt_hex
               /\ users'[u].password_hash_hex = users[u].password_hash_hex
               /\ users'[u].role = users[u].role
       /\ (\A s \in Sessions : /\ req'[s].pc = "idle" /\ req'[s].op = "signup"
                               /\ req'[s].username = "alice" /\ nreq'[s] = 1)
          => \E w \in Sessions :
                /\ req'[w].outcome.msg = "SignupOk"
                /\ \A s \in Sessions \ {w} : req'[s].outcome.msg = "DuplicateUsername"
                /\ users'["alice"].exists
                /\ authenticate(users', "alice", req'[w].password)]_vars

\* Two sessions signed "alice" up with different passwords; s2 won.
C8_Witness ==
    /\ \A s \in Sessions : /\ req[s].pc = "idle" /\ req[s].op = "signup"
                           /\ req[s].username = "alice" /\ nreq[s] = 1
    /\ req["s1"].password # req["s2"].password
    /\ req["s1"].outcome.msg = "DuplicateUsername"
    /\ req["s2"].outcome.msg = "SignupOk"
    /\ authenticate(users, "alice", req["s2"].password)
    /\ ~authenticate(users, "alice", req["s1"].password)

\* C9: when two sessions have each completed one wrong-password login for
\* mario, no failure is lost: the row's failed_attempts counts every failure
\* registered since it was last reset, and the row is locked if the count
\* has reached MAX_FAILED_ATTEMPTS.
C9_NoFailureLost ==
    (\A s \in Sessions : /\ req[s].pc = "idle" /\ req[s].op = "login"
                         /\ req[s].username = "mario" /\ nreq[s] = 1
                         /\ req[s].outcome.msg = "WrongCredentials")
    => /\ users["mario"].failed_attempts = fails["mario"]
       /\ users["mario"].failed_attempts >= MAX_FAILED_ATTEMPTS
             => users["mario"].lock_until # NoTime

\* C10: with two sessions logging in at once, no login leaves its session
\* logged in, or bound to change the password, under a username whose row's
\* lock_until is set and in the future at that moment, and no step of a
\* login takes away a lock that has not expired.
C10_LockHoldsUnderConcurrency ==
    [][/\ \A s \in Sessions :
            (/\ req[s].op = "login"
             /\ \/ ~sess[s].logged_in /\ sess'[s].logged_in
                \/ ~sess[s].must_change_password /\ sess'[s].must_change_password)
            => ~UserLockActive(get_user(users', sess'[s].username), now')
       /\ \A u \in DOMAIN users :
            UserLockActive(users[u], now') => UserLockActive(users'[u], now')]_vars

\* C11: is_locked evaluated on a row whose lock_until is set and not later
\* than the instant of the evaluation answers not locked and, in the same
\* call, stores failed_attempts = 0 and lock_until unset for that user.
C11_ExpiredLockClearedOnEvaluation ==
    [][(/\ probe'.total = probe.total + 1
        /\ probe'.last = "is_locked"
        /\ users[GuardUser].lock_until # NoTime
        /\ now' >= users[GuardUser].lock_until)
       => /\ ~probe'.locked
          /\ probe'.reset
          /\ users'[GuardUser].failed_attempts = 0
          /\ users'[GuardUser].lock_until = NoTime
          /\ users'[GuardUser].password_hash_hex = users[GuardUser].password_hash_hex]_vars

\* The evaluation found a lock that had run out and cleared the row.
C11_Witness ==
    /\ probe.last = "is_locked" /\ probe.reset /\ ~probe.locked
    /\ probe.at # NoTime
    /\ now >= probe.at + probe.lock_minutes * SecondsPerMinute
    /\ RowFresh(users[GuardUser])

\* C12: seen at every login of a session. While global_lock_until is in the
\* future the login is answered GlobalLockActive with 1..15 minutes and the
\* guard is as it was. Otherwise it is not answered GlobalLockActive; a lock
\* that has run out is first reset to (0, None); a failed login then counts
\* one global failure and sets global_lock_until to now + 15 minutes when the
\* counter reaches 12; a successful one leaves the guard at (0, None).
C12_SessionGuardLazyExpiry ==
    [][LET S == sess[Me]
           S2 == sess'[Me]
           expired == S.global_lock_until # NoTime /\ now' >= S.global_lock_until
           base == IF expired THEN 0 ELSE S.global_failed_attempts
           out == req'[Me].outcome
       IN (nreq'[Me] = nreq[Me] + 1 /\ req'[Me].op = "login")
          => /\ GlobalLockActive(S, now')
                => /\ out.msg = "GlobalLockActive"
                   /\ out.minutes >= 1 /\ out.minutes <= GLOBAL_LOCK_MINUTES
                   /\ S2 = S
             /\ ~GlobalLockActive(S, now')
                => /\ out.msg # "GlobalLockActive"
                   /\ out.msg \in {"InvalidCredentials", "AccountLocked",
                                   "WrongCredentials", "GlobalMaxReached"}
                      => /\ S2.global_failed_attempts = base + 1
                         /\ S2.global_lock_until =
                               IF base + 1 >= GLOBAL_MAX_FAILED_ATTEMPTS
                               THEN now' + GLOBAL_LOCK_MINUTES * SecondsPerMinute
                               ELSE NoTime
                   /\ out.msg \in {"Welcome", "PasswordExpired"} => GuardFresh(S2)]_vars

\* Twelve failures, a login refused by the global lock, and a failed login
\* once the lock had run out: the counter restarted at 1.
C12_Witness ==
    /\ streak[Me].ghosts = GLOBAL_MAX_FAILED_ATTEMPTS + 2
    /\ req[Me].outcome.msg \in {"InvalidCredentials", "WrongCredentials"}
    /\ sess[Me].global_failed_attempts = 1
    /\ sess[Me].global_lock_until = NoTime

\* C13 as the specification states it: a wrong-password login from an
\* Anonymous session for an existing user, with neither lock active, leaves
\* failed_attempts and global_failed_attempts each exactly 1 more than they
\* were stored, the row locked for 15 minutes if the count reached 5, and
\* the session Anonymous.
C13_WrongPasswordAddsOneToStored ==
    [][LET u == req'[Me].username
           row == get_user(users, u)
       IN (/\ nreq'[Me] = nreq[Me] + 1 /\ req'[Me].op = "login"
           /\ row.exists /\ ~authenticate(users, u, req'[Me].password)
           /\ Anonymous(sess[Me])
           /\ ~GlobalLockActive(sess[Me], now') /\ ~UserLockActive(row, now'))
          => /\ users'[u].failed_attempts = row.failed_attempts + 1
             /\ users'[u].lock_until =
                   IF row.failed_attempts + 1 >= MAX_FAILED_ATTEMPTS
                   THEN now' + LOCKOUT_MINUTES * SecondsPerMinute
                   ELSE row.lock_until
             /\ sess'[Me].global_failed_attempts = sess[Me].global_failed_attempts + 1
             /\ Anonymous(sess'[Me])]_vars

\* C13: a wrong-password login from an Anonymous session for an existing
\* user, with neither lock active, counts one failure on each counter,
\* starting from 0 where a lock that has run out is still stored: the row
\* gets failed_attempts + 1 and is locked until now + 15 minutes if that
\* reaches 5, the session gets global_failed_attempts + 1 (locked at 12),
\* nothing else in the row changes and the session stays Anonymous.
C13_WrongPasswordCountsOne ==
    [][LET u == req'[Me].username
           row == get_user(users, u)
           S == sess[Me]
           user_base == IF row.lock_until # NoTime THEN 0 ELSE row.failed_attempts
           global_base == IF S.global_lock_until # NoTime THEN 0
                          ELSE S.global_failed_attempts
       IN (/\ nreq'[Me] = nreq[Me] + 1 /\ req'[Me].op = "login"
           /\ row.exists /\ ~authenticate(users, u, req'[Me].password)
           /\ Anonymous(S)
           /\ ~GlobalLockActive(S, now') /\ ~UserLockActive(row, now'))
          => /\ users' = [users EXCEPT
                   ![u].failed_attempts = user_base + 1,
                   ![u].lock_until =
                       IF user_base + 1 >= MAX_FAILED_ATTEMPTS
                       THEN now' + LOCKOUT_MINUTES * SecondsPerMinute
                       ELSE NoTime]
             /\ sess'[Me] = [S EXCEPT
                   !.global_failed_attempts = global_base + 1,
                   !.global_lock_until =
                       IF global_base + 1 >= GLOBAL_MAX_FAILED_ATTEMPTS
                       THEN now' + GLOBAL_LOCK_MINUTES * SecondsPerMinute
                       ELSE NoTime]
             /\ req'[Me].outcome.msg \in {"WrongCredentials", "GlobalMaxReached"}]_vars

\* Five wrong passwords, a login refused by the lock, and a wrong password
\* once the lock had run out: the row counts 1 again, the session 7.
C13_Witness ==
    /\ streak[Me].wrong = MAX_FAILED_ATTEMPTS + 2
    /\ users["mario"].failed_attempts = 1
    /\ users["mario"].lock_until = NoTime
    /\ sess[Me].global_failed_attempts = MAX_FAILED_ATTEMPTS + 2
    /\ Anonymous(sess[Me])

\* C14: a signup, not refused by the global lock, whose username is empty,
\* whose password breaks the policy or differs from its confirmation, or
\* whose username already exists, counts exactly one global failure (locking
\* the session at 12), leaves the table as it was - no row created, no
\* credential, role or guard state of a row changed - and leaves the
\* session's identity and flags as they were (Anonymous stays Anonymous).
C14_FailedSignupCountsOnce ==
    [][LET u == req'[Me].username
           p == req'[Me].password
           S == sess[Me]
           invalid == u = "" \/ ~validate_password(p) \/ p # req'[Me].confirm
           duplicate == ~invalid /\ get_user(users, u).exists
           global_base == IF S.global_lock_until # NoTime THEN 0
                          ELSE S.global_failed_attempts
       IN (/\ nreq'[Me] = nreq[Me] + 1 /\ req'[Me].op = "signup"
           /\ ~GlobalLockActive(S, now')
           /\ invalid \/ duplicate)
          => /\ users' = users
             /\ sess'[Me] = [S EXCEPT
                   !.global_failed_attempts = global_base + 1,
                   !.global_lock_until =
                       IF global_base + 1 >= GLOBAL_MAX_FAILED_ATTEMPTS
                       THEN now' + GLOBAL_LOCK_MINUTES * SecondsPerMinute
                       ELSE NoTime]
             /\ Anonymous(S) => Anonymous(sess'[Me])
             /\ duplicate <=> req'[Me].outcome.msg = "DuplicateUsername"
             /\ invalid <=> req'[Me].outcome.msg \in
                   {"EmptyUsername", "PasswordPolicyViolation", "PasswordMismatch"}]_vars

\* After a form that failed validation, a valid form naming mario was
\* refused as a duplicate: two global failures, mario's row as seeded.
C14_Witness ==
    /\ req[Me].op = "signup" /\ req[Me].username = "mario"
    /\ req[Me].outcome.msg = "DuplicateUsername"
    /\ sess[Me].global_failed_attempts = 2
    /\ Anonymous(sess[Me])
    /\ authenticate(users, "mario", Pw1234) /\ users["mario"].role = "Admin"
    /\ RowFresh(users["mario"])

\* C15: a signup, not refused by the global lock, that passes validation
\* and names a username without a row creates that one row - the username
\* and role of the form, a credential that verifies the form's password,
\* failed_attempts 0, no lock_until - and changes no other row; the session
\* is not logged in by it and its identity and flags are as before, so an
\* Anonymous session stays Anonymous with no username bound.
C15_SignupCreatesAndStaysAnonymous ==
    [][LET u == req'[Me].username
           p == req'[Me].password
           S == sess[Me]
       IN (/\ nreq'[Me] = nreq[Me] + 1 /\ req'[Me].op = "signup"
           /\ ~GlobalLockActive(S, now')
           /\ u # "" /\ validate_password(p) /\ p = req'[Me].confirm
           /\ ~get_user(users, u).exists)
          => /\ req'[Me].outcome.msg = "SignupOk"
             /\ \E salt \in Salts :
                   users' = [users EXCEPT ![u] = NewRow(u, p, req'[Me].role, salt, now')]
             /\ RowFresh(users'[u])
             /\ authenticate(users', u, p)
             /\ sess'[Me] = reset_global_fail(S)
             /\ ~Authenticated(sess'[Me])
             /\ Anonymous(S) => Anonymous(sess'[Me]) /\ sess'[Me].username = NoName
                                /\ sess'[Me].role = NoRole]_vars

\* alice has just been created as a Manager and the session is Anonymous.
C15_Witness ==
    /\ req[Me].op = "signup" /\ req[Me].username = "alice"
    /\ req[Me].outcome.msg = "SignupOk"
    /\ users["alice"].exists /\ users["alice"].role = "Manager"
    /\ req[Me].role = "Manager"
    /\ authenticate(users, "alice", req[Me].password)
    /\ Anonymous(sess[Me]) /\ sess[Me].username = NoName

\* C16: a change of password that is not forced and whose current password
\* does not verify against the stored credential leaves the table as it
\* was; and the salt, hash or password_last_set of an existing row is
\* replaced only by a change_password for that user that was not refused by
\* the global lock, whose new password equals its confirmation and meets
\* the policy, and - unless forced by expiry - whose current password
\* verified.
C16_CredentialReplacedOnlyWhenVerified ==
    [][LET u == req'[Me].username
           S == sess[Me]
       IN /\ (/\ nreq'[Me] = nreq[Me] + 1 /\ req'[Me].op = "change_password"
              /\ ~req'[Me].force
              /\ ~authenticate(users, u, req'[Me].current))
             => /\ users' = users
                /\ req'[Me].outcome.msg \in {"CurrentPasswordWrong", "GlobalLockActive"}
          /\ \A v \in DOMAIN users :
                (/\ users[v].exists
                 /\ \/ users'[v].salt_hex # users[v].salt_hex
                    \/ users'[v].password_hash_hex # users[v].password_hash_hex
                    \/ users'[v].password_last_set # users[v].password_last_set)
                => /\ req'[Me].op = "change_password" /\ v = u
                   /\ req'[Me].outcome.msg = "PasswordUpdated"
                   /\ ~GlobalLockActive(S, now')
                   /\ req'[Me].force \/ authenticate(users, u, req'[Me].current)
                   /\ req'[Me].password = req'[Me].confirm
                   /\ validate_password(req'[Me].password)
                   /\ authenticate(users', u, req'[Me].password)
                   /\ users'[v].password_last_set = now']_vars

\* Logged in as mario, a change of password with a wrong current password
\* was refused: mario's credential is the seeded one.
C16_Witness ==
    /\ req[Me].op = "change_password" /\ ~req[Me].force
    /\ req[Me].username = "mario"
    /\ req[Me].outcome.msg = "CurrentPasswordWrong"
    /\ req[Me].password = req[Me].confirm /\ validate_password(req[Me].password)
    /\ authenticate(users, "mario", Pw1234)
    /\ users["mario"].password_last_set = 0

\* C17: a forced change of password by a session bound to change it. If the
\* global lock is not active, new = confirm and the policy is met, the new
\* password is stored (set_new_password), the session's guard is (0, None)
\* and the session is logged in under the same username with the row's
\* role. Otherwise the table is as it was and the session is still bound to
\* change the password and not logged in; refused by the global lock, the
\* guard is as it was; refused by a check of the form, it counts one more
\* global failure (from 0 where a lock that had run out was still stored).
C17_ForcedChange ==
    [][LET u == req'[Me].username
           p == req'[Me].password
           S == sess[Me]
           S2 == sess'[Me]
           valid == p = req'[Me].confirm /\ validate_password(p)
           global_base == IF S.global_lock_until # NoTime THEN 0
                          ELSE S.global_failed_attempts
       IN (/\ nreq'[Me] = nreq[Me] + 1 /\ req'[Me].op = "change_password"
           /\ req'[Me].force /\ MustChangePassword(S))
          => /\ u = S.username
             /\ (~GlobalLockActive(S, now') /\ valid)
                => /\ req'[Me].outcome.msg = "PasswordUpdated"
                   /\ authenticate(users', u, p)
                   /\ users'[u].password_last_set = now'
                   /\ GuardFresh(S2)
                   /\ Authenticated(S2) /\ ~S2.must_change_password
                   /\ S2.username = u /\ S2.role = users[u].role
             /\ GlobalLockActive(S, now')
                => /\ req'[Me].outcome.msg = "GlobalLockActive"
                   /\ users' = users /\ S2 = S
             /\ (~GlobalLockActive(S, now') /\ ~valid)
                => /\ req'[Me].outcome.msg \in {"PasswordMismatch", "PasswordPolicyViolation"}
                   /\ users' = users
                   /\ S2 = [S EXCEPT
                         !.global_failed_attempts = global_base + 1,
                         !.global_lock_until =
                             IF global_base + 1 >= GLOBAL_MAX_FAILED_ATTEMPTS
                             THEN now' + GLOBAL_LOCK_MINUTES * SecondsPerMinute
                             ELSE NoTime]
                   /\ MustChangePassword(S2)]_vars

\* A forced form that failed a check locked the session, and a valid forced
\* form was then refused by the global lock: mario's password is the seeded one.
C17_Witness ==
    /\ req[Me].op = "change_password" /\ req[Me].force
    /\ req[Me].outcome.msg = "GlobalLockActive"
    /\ req[Me].password = req[Me].confirm /\ validate_password(req[Me].password)
    /\ MustChangePassword(sess[Me])
    /\ GlobalLockActive(sess[Me], now)
    /\ authenticate(users, "mario", Pw1234)

\* C18: logout, called in any state the session can be in - Anonymous, bound
\* to change the password or logged in, with the Session Guard counting,
\* locked or clear - leaves the session Anonymous with no username and no
\* role, the must-change flag off and the guard at (0, None), and leaves
\* the table as it was; and so does every Logout the session submits.
C18_LogoutClearsSession ==
    [][LET Cleared(S) == /\ Anonymous(S)
                         /\ S.username = NoName /\ S.role = NoRole
                         /\ GuardFresh(S)
           After(rows, S, fl, t) ==
               Run([users |-> rows, S |-> S, R |-> LogoutForm, fails |-> fl], t)
       IN /\ Cleared(After(users, sess[Me], fails, now).S)
          /\ After(users, sess[Me], fails, now).users = users
          /\ Cleared(After(users', sess'[Me], fails', now').S)
          /\ After(users', sess'[Me], fails', now').users = users'
          /\ (nreq'[Me] = nreq[Me] + 1 /\ req'[Me].op = "logout")
             => /\ Cleared(sess'[Me])
                /\ users' = users]_vars

\* Logged in by a forced change after global failures, the session logged
\* out: it is Anonymous and mario's row holds the changed password.
C18_Witness ==
    /\ req[Me].op = "logout" /\ nreq[Me] >= 2
    /\ Anonymous(sess[Me]) /\ sess[Me].username = NoName /\ sess[Me].role = NoRole
    /\ GuardFresh(sess[Me])
    /\ authenticate(users, "mario", PwGood2)

\* C19: when the write to the table fails during a login, a signup or a
\* change of password, the form is answered with a failure and nothing has
\* changed: no row (so no failed_attempts), and nothing in the session (so
\* not global_failed_attempts either).
C19_FailedWriteChangesNothing ==
    [][(/\ nreq'[Me] = nreq[Me] + 1
        /\ req'[Me].fault
        /\ req'[Me].outcome.msg \in {"StorageError", "Exception"})
       => /\ users' = users
          /\ sess'[Me] = sess[Me]]_vars

\* C20: a lock timestamp that does not parse counts as no lock and raises
\* nothing: a login for a row whose lock_until is unreadable goes on to
\* verify the password, and so does a login from a session whose
\* global_lock_until is unreadable.
C20_UnreadableLockFailsSafe ==
    [][LET u == req'[Me].username
           verified == {"Welcome", "PasswordExpired", "WrongCredentials", "GlobalMaxReached"}
       IN (nreq'[Me] = nreq[Me] + 1 /\ req'[Me].op = "login" /\ get_user(users, u).exists)
          => /\ (users[u].lock_until = BadTime /\ sess[Me].global_lock_until = NoTime)
                => req'[Me].outcome.msg \in verified
             /\ (sess[Me].global_lock_until = BadTime /\ users[u].lock_until = NoTime)
                => req'[Me].outcome.msg \in verified]_vars

\* C21: reset(username) is idempotent. Every reset leaves the user's guard
\* state at (0, unset) whatever it was before, applying the reset again to
\* that table gives the same table, and a reset that directly follows another
\* reset changes no row.
C21_ResetIdempotent ==
    [][(probe'.total = probe.total + 1 /\ probe'.last = "reset") =>
          /\ users'[GuardUser].failed_attempts = 0
          /\ users'[GuardUser].lock_until = NoTime
          /\ users' = reset_failed_attempts(users, GuardUser)
          /\ reset_failed_attempts(users', GuardUser) = users'
          /\ reset_failed_attempts(reset_failed_attempts(users, GuardUser), GuardUser)
                = reset_failed_attempts(users, GuardUser)
          /\ probe.last = "reset" => users' = users]_vars

\* Two resets in a row have been made, after an earlier call of the guard.
C21_Witness ==
    /\ probe.last = "reset"
    /\ probe.prev = "reset"
    /\ probe.total >= 3
    /\ fails[GuardUser] = 0
    /\ users[GuardUser].failed_attempts = 0
    /\ users[GuardUser].lock_until = NoTime

\* The passwords the forms of the model type.
TypedPasswords == {Pw1234, PwAbcd, PwPass, PwGood, PwGood2, PwEmpty}

\* C22: after a password change that succeeded, the stored hash is the hash of
\* the new password under the stored salt (salt and hash were written
\* together), so the new password verifies and authenticates, and every other
\* password, the old one included, no longer authenticates.
C22_NewPasswordReplacesOld ==
    [][(/\ nreq'[Me] = nreq[Me] + 1
        /\ req'[Me].op = "change_password"
        /\ req'[Me].outcome.msg = "PasswordUpdated") =>
          LET u == req'[Me].username
              newPw == req'[Me].password
              row == get_user(users', u)
          IN  /\ row.exists
              /\ row.password_hash_hex = pbkdf2_hmac(newPw, row.salt_hex)
              /\ _verify_password(newPw, row.salt_hex, row.password_hash_hex)
              /\ authenticate(users', u, newPw)
              /\ \E salt \in Salts :
                    users' = set_new_password(users, u, newPw, salt, now')
              /\ \A oldPw \in TypedPasswords :
                    (oldPw # newPw /\ authenticate(users, u, oldPw)) =>
                        ~authenticate(users', u, oldPw)]_vars

\* A password change has replaced a password that authenticated before, and
\* the fresh salt differs from the one the account was created with.
C22_Witness ==
    /\ req[Me].op = "change_password"
    /\ req[Me].outcome.msg = "PasswordUpdated"
    /\ req[Me].username = "mario"
    /\ authenticate(users, "mario", PwGood2)
    /\ ~authenticate(users, "mario", Pw1234)
    /\ users["mario"].salt_hex # users["lucas"].salt_hex

\* C23: the policy accepts a password exactly when it has at least 8
\* characters, at least one uppercase letter A-Z and at least one character
\* that is neither a letter nor a digit; "abc", "abcdefgh" and "Abcdefgh" are
\* rejected and "Abcdef1!" is accepted.
C23_PolicyAcceptsExactly ==
    /\ ~validate_password(PwAbc)
    /\ ~validate_password(PwAbcdefgh)
    /\ ~validate_password(PwAbcdefghCap)
    /\ validate_password(PwGood)
    /\ probe.checked =>
          (probe.accepted <=>
              /\ Len(probe.password) >= 8
              /\ \E i \in 1..Len(probe.password) : probe.password[i] \in Upper
              /\ \E i \in 1..Len(probe.password) :
                    probe.password[i] \notin (Letters \cup Digit))

\* C24: is_password_expired answers false for every record when the expiry
\* days are 0 or less; otherwise it answers true when password_last_set is
\* absent and, when it is present and readable, true exactly when
\* now >= password_last_set + expiry days: at the boundary instant the
\* password is expired.
C24_ExpiryBoundary ==
    LET last == users[ExpiryUser].password_last_set
        days == probe.expiry_days
    IN  probe.calls > 0 =>
          /\ days <= 0 => ~probe.expired
          /\ (days > 0 /\ last = NoTime) => probe.expired
          /\ (days > 0 /\ last >= 0) =>
                (probe.expired <=> now >= last + days * SecondsPerDay)
          /\ (days > 0 /\ last >= 0 /\ now = last + days * SecondsPerDay) =>
                probe.expired

\* The check was evaluated at the very instant a readable password_last_set
\* plus the expiry days is reached, and answered expired.
C24_Witness ==
    /\ probe.calls > 0
    /\ probe.expiry_days > 0
    /\ users[ExpiryUser].password_last_set = 1
    /\ now = users[ExpiryUser].password_last_set + probe.expiry_days * SecondsPerDay
    /\ probe.expired

\* C25: seeding is idempotent and non-destructive. A run of seed_initial_users
\* inserts a row exactly for the seed usernames that are absent, with the
\* seed's password and role and the guard state (0, unset); it leaves every
\* row that exists as it is (credentials, role, guard state); and running it
\* again, right away and with any salt, changes nothing.
C25_SeedIdempotent ==
    [][(probe'.total = probe.total + 1 /\ probe'.last = "seed") =>
          /\ \A u \in Usernames : users[u].exists => users'[u] = users[u]
          /\ \A u \in Usernames :
                ~users[u].exists => (users'[u].exists <=> u \in SeedNames)
          /\ \A u \in SeedNames :
                ~users[u].exists =>
                    /\ authenticate(users', u, SeedData[u].password)
                    /\ users'[u].role = SeedData[u].role
                    /\ users'[u].failed_attempts = 0
                    /\ users'[u].lock_until = NoTime
          /\ \A salt \in Salts, d \in SeedDelays :
                seed_initial_users(users', SeedData, salt, now' + d) = users'
          /\ probe.last = "seed" => users' = users]_vars

\* Seeding ran twice in a row on a table where mario, present before the
\* first seeding with credentials of their own, had a failure counted, and
\* where lucas was inserted by the seeding.
C25_Witness ==
    /\ probe.last = "seed"
    /\ probe.prev = "seed"
    /\ users[SeedUser].failed_attempts = 1
    /\ authenticate(users, SeedUser, PwGood)
    /\ users[SeedUser].role = "Viewer"
    /\ authenticate(users, "lucas", PwAbcd)

\* C26: the session's global_failed_attempts goes down, and a set
\* global_lock_until is cleared, only by a logout, a login that succeeded, a
\* password change that succeeded, or the lazy expiry of a global lock whose
\* time has come; no other operation, no signup in particular, lowers the
\* counter or clears the lock.
C26_GuardResetOnlyByNamedOperations ==
    [][(\/ sess'[Me].global_failed_attempts < sess[Me].global_failed_attempts
        \/ (sess[Me].global_lock_until # NoTime /\ sess'[Me].global_lock_until = NoTime)) =>
          \/ req'[Me].op = "logout"
          \/ (req'[Me].op = "login" /\ req'[Me].outcome.msg \in {"Welcome", "PasswordExpired"})
          \/ (req'[Me].op = "change_password" /\ req'[Me].outcome.msg = "PasswordUpdated")
          \/ (sess[Me].global_lock_until # NoTime /\ now' >= sess[Me].global_lock_until)]_vars

\* The guard state of a row.
GuardOf(row) == <<row.failed_attempts, row.lock_until>>

\* C27: a user's failed_attempts and lock_until change only in a login that
\* names that user, by a registered failure (one more failure, counted from
\* 0 when an expired lock was cleared first) or by a reset to (0, unset);
\* password changes, signups, logouts and logins naming another or an unknown
\* username leave them as they are, and so does a run of the seeding.
C27_GuardStateFrame ==
    [][\A v \in Usernames :
          /\ GuardOf(users'[v]) # GuardOf(users[v]) =>
                /\ req'[Me].op = "login"
                /\ req'[Me].username = v
                /\ \/ GuardOf(users'[v]) = <<0, NoTime>>
                   \/ users'[v].failed_attempts = users[v].failed_attempts + 1
                   \/ users'[v].failed_attempts = 1
          /\ \A salt \in Salts :
                GuardOf(seed_initial_users(users', SeedData, salt, now')[v])
                  = GuardOf(users'[v])]_vars

\* A password change was stored for mario while the row had a failure counted.
C27_Witness ==
    /\ req[Me].op = "change_password"
    /\ req[Me].outcome.msg = "PasswordUpdated"
    /\ req[Me].username = "mario"
    /\ users["mario"].failed_attempts = 1
    /\ authenticate(users, "mario", PwGood2)

\* C28: a login naming a user whose lock is active, in a session whose global
\* lock is not, is answered AccountLocked, counts exactly one global failure
\* (from 0 when an expired global lock was cleared first) and leaves every row
\* as it is: the user's failed_attempts and lock_until are not touched, the
\* lock is not extended. A login made while the session's global lock is
\* active is answered GlobalLockActive and changes neither the session nor
\* any row.
C28_LockedLoginsCount ==
    [][LET u == req'[Me].username
           S == sess[Me]
           base == IF S.global_lock_until # NoTime THEN 0 ELSE S.global_failed_attempts
       IN (nreq'[Me] = nreq[Me] + 1 /\ req'[Me].op = "login") =>
            /\ GlobalLockActive(S, now') =>
                  /\ req'[Me].outcome.msg = "GlobalLockActive"
                  /\ sess'[Me] = S
                  /\ users' = users
            /\ (/\ ~GlobalLockActive(S, now')
                /\ get_user(users, u).exists
                /\ UserLockActive(get_user(users, u), now')) =>
                  /\ req'[Me].outcome.msg = "AccountLocked"
                  /\ users' = users
                  /\ sess'[Me].global_failed_attempts = base + 1
                  /\ sess'[Me].global_lock_until =
                        IF base + 1 >= GLOBAL_MAX_FAILED_ATTEMPTS
                        THEN now' + GLOBAL_LOCK_MINUTES * SecondsPerMinute
                        ELSE NoTime]_vars

\* Five wrong passwords locked mario; the logins that followed during the
\* lockout brought the session to its twelfth global failure without touching
\* the row, and a login was then rejected by the global lock.
C28_Witness ==
    /\ req[Me].op = "login"
    /\ req[Me].username = "mario"
    /\ req[Me].outcome.msg = "GlobalLockActive"
    /\ nreq[Me] = GLOBAL_MAX_FAILED_ATTEMPTS + 1
    /\ fails["mario"] = MAX_FAILED_ATTEMPTS
    /\ users["mario"].failed_attempts = MAX_FAILED_ATTEMPTS
    /\ UserLockActive(users["mario"], now)
    /\ sess[Me].global_failed_attempts = GLOBAL_MAX_FAILED_ATTEMPTS
    /\ GlobalLockActive(sess[Me], now)

\* C29: a login answered WrongCredentials reports, for the user, the larger
\* of 0 and MAX_FAILED_ATTEMPTS minus the failed_attempts stored after that
\* failure and, for the session, the larger of 0 and
\* GLOBAL_MAX_FAILED_ATTEMPTS minus global_failed_attempts; this also for the
\* first wrong password after an expired lock was cleared in the same login.
C29_RemainingMatchesStored ==
    [][(/\ nreq'[Me] = nreq[Me] + 1
        /\ req'[Me].op = "login"
        /\ req'[Me].outcome.msg = "WrongCredentials") =>
          LET u == req'[Me].username IN
          /\ req'[Me].outcome.remaining_user
                = Max(0, MAX_FAILED_ATTEMPTS - users'[u].failed_attempts)
          /\ req'[Me].outcome.remaining_global
                = Max(0, GLOBAL_MAX_FAILED_ATTEMPTS - sess'[Me].global_failed_attempts)]_vars

\* C30: after any sequence of logins, signups, password changes and logouts
\* the session is in exactly one of Anonymous, MustChangePassword and
\* Authenticated: logged_in and must_change_password are never both true,
\* also after a login as a user whose password has expired followed by a
\* login as another user.
C30_OneSessionStateAtATime ==
    ~(sess[Me].logged_in /\ sess[Me].must_change_password)

\* C31: in every state of the table, however the handlers of two sessions
\* interleave, a row whose lock_until is set has failed_attempts of at least
\* MAX_FAILED_ATTEMPTS and no row has a negative failed_attempts; as long as
\* one session alone has submitted anything, failed_attempts does not exceed
\* MAX_FAILED_ATTEMPTS.
C31_LockImpliesThreshold ==
    \A u \in Usernames :
        /\ users[u].lock_until # NoTime =>
              users[u].failed_attempts >= MAX_FAILED_ATTEMPTS
        /\ users[u].failed_attempts >= 0
        /\ (nreq["s1"] = 0 \/ nreq["s2"] = 0) =>
              users[u].failed_attempts <= MAX_FAILED_ATTEMPTS

\* Two sessions failed on mario's password at once: the second UPDATE counted
\* on top of the first and the row is locked beyond the threshold.
C31_Witness ==
    /\ nreq["s1"] = 1
    /\ nreq["s2"] = 1
    /\ req["s1"].pc = "idle"
    /\ req["s2"].pc = "idle"
    /\ users["mario"].lock_until # NoTime
    /\ users["mario"].failed_attempts = MAX_FAILED_ATTEMPTS + 1

\* C32: in every state of a session global_failed_attempts is between 0 and
\* GLOBAL_MAX_FAILED_ATTEMPTS, and global_lock_until is set exactly when the
\* count stands at GLOBAL_MAX_FAILED_ATTEMPTS; a login, signup or password
\* change submitted while that lock is active is answered GlobalLockActive
\* and counts nothing: session and table stay as they were.
C32_GlobalCountBounded ==
    /\ [](/\ sess[Me].global_failed_attempts >= 0
          /\ sess[Me].global_failed_attempts <= GLOBAL_MAX_FAILED_ATTEMPTS
          /\ sess[Me].global_lock_until # NoTime
                <=> sess[Me].global_failed_attempts = GLOBAL_MAX_FAILED_ATTEMPTS)
    /\ [][(/\ nreq'[Me] = nreq[Me] + 1
            /\ req'[Me].op \in {"login", "signup", "change_password"}
            /\ sess[Me].global_failed_attempts = GLOBAL_MAX_FAILED_ATTEMPTS
            /\ GlobalLockActive(sess[Me], now')) =>
              /\ req'[Me].outcome.msg = "GlobalLockActive"
              /\ sess'[Me] = sess[Me]
              /\ users' = users]_vars

\* A signup that would have passed every check was submitted while the lock
\* set by the twelfth failure was active, and was rejected.
C32_Witness ==
    /\ req[Me].op = "signup"
    /\ req[Me].username = "alice"
    /\ req[Me].password = PwGood
    /\ req[Me].confirm = PwGood
    /\ req[Me].outcome.msg = "GlobalLockActive"
    /\ ~users["alice"].exists
    /\ sess[Me].global_failed_attempts = GLOBAL_MAX_FAILED_ATTEMPTS
    /\ GlobalLockActive(sess[Me], now)

\* C33: lockout is bounded. When mario's row was locked by a failure
\* registered at instant probe.at and no failure was registered for it since,
\* a login as mario with the right password, made at probe.at plus
\* LOCKOUT_MINUTES or later from a session whose global lock is not active,
\* succeeds: the session is Authenticated or bound to change the password as
\* mario, and the row is left at failed_attempts 0 with no lock, however
\* many logins were made against the row during the lockout.
C33_LockoutBounded ==
    [][(/\ nreq'[Me] = nreq[Me] + 1
        /\ req'[Me].op = "login"
        /\ req'[Me].username = "mario"
        /\ probe.at # NoTime
        /\ now' >= probe.at + LOCKOUT_MINUTES * SecondsPerMinute
        /\ ~GlobalLockActive(sess[Me], now')
        /\ authenticate(users, "mario", req'[Me].password)) =>
          /\ req'[Me].outcome.msg \in {"Welcome", "PasswordExpired"}
          /\ sess'[Me].logged_in \/ sess'[Me].must_change_password
          /\ sess'[Me].username = "mario"
          /\ users'["mario"].failed_attempts = 0
          /\ users'["mario"].lock_until = NoTime]_vars

\* Mario's row was locked, two logins were made against it during the
\* lockout, and the first login made after the lockout, with the right
\* password, was let in.
C33_Witness ==
    /\ req[Me].op = "login"
    /\ req[Me].outcome.msg = "Welcome"
    /\ sess[Me].logged_in
    /\ sess[Me].username = "mario"
    /\ probe.at # NoTime
    /\ now >= probe.at + LOCKOUT_MINUTES * SecondsPerMinute
    /\ probe.calls = 2
    /\ users["mario"].failed_attempts = 0
    /\ users["mario"].lock_until = NoTime

\* C34: when two sessions run the seeding at once on a table that holds none
\* of the seed usernames, then however their statements interleave both runs
\* end without an error and the table holds a row for each seed username
\* (one each: username is UNIQUE), with the seed's password and role.
C34_ConcurrentSeedingCompletes ==
    (/\ probe.absent = SeedNames
     /\ \A s \in Sessions : req[s].pc \in {"done", "raised"}) =>
        /\ \A s \in Sessions : req[s].pc = "done" /\ req[s].error = "None"
        /\ \A u \in SeedNames :
              /\ users[u].exists
              /\ authenticate(users, u, SeedData[u].password)
              /\ users[u].role = SeedData[u].role
====
